---- MODULE Spec2Model ----
(***************************************************************************)
(* Order-fulfilment backend (src/tub.py): the daily order workflow         *)
(* (daily_orders table, save_daily_decision / get_daily_orders) and the    *)
(* return workflow (return_status table, supplier_accept_return /          *)
(* supplier_deliver_return / seller_accept_return).                        *)
(*                                                                         *)
(* The store is one SQLite file.  Every request runs on its own worker     *)
(* thread (app.run(threaded=True)) with its own connection; a write        *)
(* statement opens that connection's transaction and takes the database    *)
(* write lock, db.commit() publishes it.  A table is modelled as the       *)
(* sequence of its rows in rowid order (AUTOINCREMENT ids only grow, so    *)
(* the position in the sequence is the order of the ids).                  *)
(***************************************************************************)
EXTENDS Integers, Sequences, FiniteSets, TLC

VARIABLES daily_orders,    \* committed rows of table daily_orders
          return_status,   \* committed rows of table return_status
          txn,             \* the open write transaction: owner and its uncommitted tables
          pc,              \* position of each worker thread in its handler
          req,             \* the request each worker thread is serving
          now,             \* CURRENT_TIMESTAMP
          response,        \* the HTTP response the last handler step emitted, if any
          latest,          \* history: decision last submitted per <<role, order, campaign>>
          lastRole,        \* history: role of the last committed daily submission per key
          delivered,       \* history: keys on which a supplier_deliver_return succeeded
          decisions,       \* committed rows of table decisions (the Decision Ledger)
          accepted_returned, \* committed rows of table accepted_returned
          processed_orders,  \* committed rows of table processed_orders
          ltxn,            \* the ledger tables as the open write transaction sees them
          call,            \* the save_decisions call each worker thread is serving
          saved,           \* history: per user, the line-item counts of the calls that succeeded
          sessions,        \* committed rows of table sessions
          MAINTENANCE_MODE, \* the global maintenance flag
          issued,          \* history: the session tokens login has handed out
          revoked,         \* history: the session tokens logout was called with
          users,           \* the in-memory user table
          fetches          \* the calls to the marketplace API the last handler step made

\* The tables and bookkeeping of the decision ledger.
ledger == <<decisions, accepted_returned, processed_orders, ltxn, call, saved>>

\* The session store and the maintenance flag.
gate == <<sessions, MAINTENANCE_MODE, issued, revoked>>

vars == <<daily_orders, return_status, txn, pc, req, now, response,
          latest, lastRole, delivered, ledger, gate, users, fetches>>

----------------------------------------------------------------------------
(* Bounds *)

MaxDailyRows == 2
MaxTime == 2
MaxLedgerRows == 3

----------------------------------------------------------------------------
(* Values *)

NULL == "NULL"
NoTime == 0
NoWorker == "none"
NoPdf == <<>>
RAISED == <<"exception">>

Workers == {"w1", "w2"}
Orders == {"O1", "O2"}
Campaigns == {"C1", "C2"}
Keys == Orders \X Campaigns
Roles == {"seller", "supplier"}

\* The users of config.json, from which the in-memory user table is loaded.
CONFIG_users ==
  [u \in {"seller1", "supplier1", "supplier2", "admin"} |->
     [role |-> CASE u = "seller1"   -> "seller"
                 [] u = "supplier1" -> "supplier"
                 [] u = "supplier2" -> "supplier"
                 [] u = "admin"     -> "admin",
      assigned_stores |-> IF u = "seller1" THEN {"C1"} ELSE {},
      password_hash |-> <<"sha256", <<"password of", u>>>>]]

Users == DOMAIN CONFIG_users


----------------------------------------------------------------------------
(* SQL helpers *)

RECURSIVE SelectSeq2(_, _, _)
\* The rows of t, in rowid order, whose index is not in drop.
SelectSeq2(t, drop, i) ==
  IF i > Len(t) THEN <<>>
  ELSE IF i \in drop THEN SelectSeq2(t, drop, i + 1)
       ELSE <<t[i]>> \o SelectSeq2(t, drop, i + 1)

InsertOrIgnore(t, row, conflicts) ==
  IF conflicts = {} THEN Append(t, row) ELSE t

\* INSERT OR REPLACE: the rows that collide with the new row on a uniqueness
\* constraint are deleted, then the new row is inserted with a fresh rowid.
InsertOrReplace(t, row, conflicts) ==
  Append(SelectSeq2(t, conflicts, 1), row)

\* cursor.fetchone() of a SELECT ... WHERE order_id = ? AND campaign_id = ?
\* without ORDER BY: the scan is in rowid order, the first match is returned.
\* The result is <<>> for None and <<row>> for a row.
FetchOne(t, order, camp) ==
  LET hits == {i \in 1..Len(t) : t[i].order_id = order /\ t[i].campaign_id = camp}
  IN IF hits = {} THEN <<>>
     ELSE <<t[CHOOSE i \in hits : \A j \in hits : i <= j]>>

\* The tables a statement of worker w reads: its own uncommitted transaction
\* when it holds one, the committed tables otherwise.
ViewDaily(w) == IF txn.owner = w THEN txn.daily ELSE daily_orders
ViewReturn(w) == IF txn.owner = w THEN txn.ret ELSE return_status

\* A write statement needs the database write lock.
CanWrite(w) == txn.owner \in {NoWorker, w}

NoTxn == [owner |-> NoWorker, daily |-> <<>>, ret |-> <<>>]

\* An HTTP response: the endpoint, the status code, the detail / status text
\* of the body, its pdf_filename (return workflow) and its order list (daily
\* orders).
Response(op, code, detail, pdf, orders) ==
  [op |-> op, code |-> code, detail |-> detail, pdf |-> pdf, orders |-> orders]

\* The detail text of require_auth's refusals.
AuthDetail(code) == IF code = 401 THEN "unauthorized" ELSE "forbidden"

NoOrders == [o \in {} |-> NULL]

\* No response: the handler is still running.
NoResponse == Response(NULL, 0, NULL, NoPdf, NoOrders)

NoRequest == [op |-> NULL, user |-> NULL, order |-> NULL, camp |-> NULL,
              decision |-> NULL, pdf |-> NoPdf]

\* No save_decisions call is being served.
NoCall == [user |-> NULL, items |-> <<>>, temp_save |-> FALSE]

\* No open transaction has touched the ledger tables.
NoLedgerTxn == [decisions |-> <<>>, accepted_returned |-> <<>>, processed_orders |-> <<>>]

----------------------------------------------------------------------------
(* Table daily_orders *)

\* The table has no uniqueness constraint besides its AUTOINCREMENT id, so
\* no existing row ever collides with an inserted one.
DailyConflictsUnique(t, row) ==
  {i \in 1..Len(t) : t[i].order_id = row.order_id /\ t[i].campaign_id = row.campaign_id}

DailyConflicts(t, row) == {}

SellerDailyRowBoth(order, camp, decision, username, ts) ==
  [order_id |-> order, campaign_id |-> camp,
   product_name |-> NULL, sku |-> NULL, quantity |-> NULL,
   seller_decision |-> decision, supplier_decision |-> decision,
   seller_username |-> username, supplier_username |-> username,
   status |-> "seller_accepted", alternative_product |-> NULL,
   created_at |-> ts, updated_at |-> ts]

\* VALUES of the seller's INSERT OR REPLACE; unnamed columns take their defaults.
SellerDailyRow(order, camp, decision, username, ts) ==
  [order_id |-> order, campaign_id |-> camp,
   product_name |-> NULL, sku |-> NULL, quantity |-> NULL,
   seller_decision |-> decision, supplier_decision |-> NULL,
   seller_username |-> username, supplier_username |-> NULL,
   status |-> "seller_accepted", alternative_product |-> NULL,
   created_at |-> ts, updated_at |-> ts]

SupplierDailyRowCompleted(order, camp, decision, username, alt, ts) ==
  [order_id |-> order, campaign_id |-> camp,
   product_name |-> NULL, sku |-> NULL, quantity |-> NULL,
   seller_decision |-> NULL, supplier_decision |-> decision,
   seller_username |-> NULL, supplier_username |-> username,
   status |-> "completed", alternative_product |-> alt,
   created_at |-> ts, updated_at |-> ts]

\* VALUES of the supplier's INSERT OR REPLACE.
SupplierDailyRow(order, camp, decision, username, alt, ts) ==
  [order_id |-> order, campaign_id |-> camp,
   product_name |-> NULL, sku |-> NULL, quantity |-> NULL,
   seller_decision |-> NULL, supplier_decision |-> decision,
   seller_username |-> NULL, supplier_username |-> username,
   status |-> "supplier_accepted", alternative_product |-> alt,
   created_at |-> ts, updated_at |-> ts]

----------------------------------------------------------------------------
Init ==
  /\ daily_orders = <<>>
  /\ return_status = <<>>
  /\ txn = NoTxn
  /\ pc = [w \in Workers |-> "idle"]
  /\ req = [w \in Workers |-> NoRequest]
  /\ now = 1
  /\ response = NoResponse
  /\ latest = [k \in Roles \X Orders \X Campaigns |-> NULL]
  /\ lastRole = [k \in Keys |-> NULL]
  /\ delivered = {}
  /\ decisions = <<>>
  /\ accepted_returned = <<>>
  /\ processed_orders = <<>>
  /\ ltxn = NoLedgerTxn
  /\ call = [w \in Workers |-> NoCall]
  /\ saved = [u \in Users |-> <<>>]
  /\ sessions = <<>>
  /\ MAINTENANCE_MODE = FALSE
  /\ issued = {}
  /\ revoked = {}
  /\ users = CONFIG_users
  /\ fetches = 0

\* Time passes.
Tick ==
  /\ now < MaxTime
  /\ UNCHANGED gate
  /\ UNCHANGED <<users, fetches>>
  /\ UNCHANGED ledger
  /\ now' = now + 1
  /\ UNCHANGED <<daily_orders, return_status, txn, pc, req, response,
                 latest, lastRole, delivered>>

\* Time passes, up to `limit`.
TimePasses(limit) ==
  /\ now < limit
  /\ now' = now + 1
  /\ UNCHANGED <<daily_orders, return_status, txn, pc, req, response,
                 latest, lastRole, delivered, ledger, gate, users, fetches>>

----------------------------------------------------------------------------
(* Daily order workflow *)

require_auth_role_at_login(u, roles) ==
  IF u = NULL THEN 401
  ELSE IF CONFIG_users[u].role \notin roles THEN 403
  ELSE 0

require_auth_any_role(u, roles) ==
  IF u = NULL THEN 401 ELSE 0

\* require_auth(roles): 401 without a valid session, 403 for a role outside
\* roles, 0 when the request may proceed.
require_auth(u, roles) ==
  IF u = NULL THEN 401
  ELSE IF users[u].role \notin roles THEN 403
  ELSE 0

DailyFieldsMissingKeys(order, camp, decision) == order = NULL \/ camp = NULL

\* if not order_id or not campaign_id or not decision
DailyFieldsMissing(order, camp, decision) == order = NULL \/ camp = NULL \/ decision = NULL

\* POST /api/save_daily_decision up to its INSERT OR REPLACE.
save_daily_decision(w, u, order, camp, decision, alt) ==
  /\ pc[w] = "idle"
  /\ UNCHANGED gate
  /\ UNCHANGED users
  /\ fetches' = 0
  /\ UNCHANGED ledger
  /\ LET auth == require_auth(u, {"seller", "supplier"})
         fail(code, detail) ==
           /\ response' = Response("save_daily_decision", code, detail, NoPdf, NoOrders)
           /\ UNCHANGED <<daily_orders, return_status, txn, pc, req, now,
                          latest, lastRole, delivered>>
     IN IF auth # 0 THEN fail(auth, AuthDetail(auth))
        ELSE IF DailyFieldsMissing(order, camp, decision) THEN fail(400, "required")
        ELSE IF ~CanWrite(w) THEN fail(500, "locked")   \* sqlite3.OperationalError: database is locked
        ELSE /\ Len(daily_orders) < MaxDailyRows
             /\ LET row == IF users[u].role = "seller"
                           THEN SellerDailyRow(order, camp, decision, u, now)
                           ELSE SupplierDailyRow(order, camp, decision, u, alt, now)
                IN txn' = [owner |-> w,
                           daily |-> InsertOrReplace(daily_orders, row, DailyConflicts(daily_orders, row)),
                           ret |-> return_status]
             /\ pc' = [pc EXCEPT ![w] = "commit_daily"]
             /\ req' = [req EXCEPT ![w] = [op |-> "save_daily_decision", user |-> u,
                                           order |-> order, camp |-> camp,
                                           decision |-> decision, pdf |-> NoPdf]]
             /\ response' = NoResponse
             /\ UNCHANGED <<daily_orders, return_status, now,
                            latest, lastRole, delivered>>

\* g.db.commit() of save_daily_decision and its success response.
save_daily_decision_commit(w) ==
  /\ pc[w] = "commit_daily"
  /\ UNCHANGED gate
  /\ UNCHANGED users
  /\ fetches' = 0
  /\ UNCHANGED ledger
  /\ daily_orders' = txn.daily
  /\ return_status' = txn.ret
  /\ txn' = NoTxn
  /\ pc' = [pc EXCEPT ![w] = "idle"]
  /\ req' = [req EXCEPT ![w] = NoRequest]
  /\ response' = Response("save_daily_decision", 200, "success", NoPdf, NoOrders)
  /\ latest' = [latest EXCEPT ![<<users[req[w].user].role, req[w].order, req[w].camp>>] =
                   req[w].decision]
  /\ lastRole' = [lastRole EXCEPT ![<<req[w].order, req[w].camp>>] = users[req[w].user].role]
  /\ UNCHANGED <<now, delivered>>

SellerStoreRefusedNever(u, camp) == FALSE

\* if user.get("role") == "seller": ... if str(campaign_id) not in assigned
SellerStoreRefused(u, camp) ==
  users[u].role = "seller" /\ camp \notin users[u].assigned_stores

FetchCallsRetry(live) == IF live.ok THEN 1 ELSE 2

\* fetch_yandex_orders: one requests.get(..., timeout=30), no loop around it;
\* live is its outcome (ok FALSE for None: a timeout, an unreachable host,
\* a status other than 200).
FetchCalls(live) == 1

DailyOverlayPending(t, order, camp) ==
  [seller_decision |-> NULL, supplier_decision |-> NULL, status |-> "pending"]

\* The three columns get_daily_orders copies from the stored row onto an order.
DailyOverlay(t, order, camp) ==
  LET row == FetchOne(t, order, camp)
  IN IF row # <<>>
     THEN [seller_decision |-> row[1].seller_decision,
           supplier_decision |-> row[1].supplier_decision,
           status |-> row[1].status]
     ELSE [seller_decision |-> NULL, supplier_decision |-> NULL, status |-> "pending"]

\* GET /api/daily_orders/<campaign_id>.  live is what fetch_yandex_orders
\* returned: None (ok FALSE) on a fetch failure, else the ids of the
\* PROCESSING orders of the campaign.
get_daily_orders(w, u, camp, live) ==
  /\ pc[w] = "idle"
  /\ UNCHANGED gate
  /\ UNCHANGED users
  /\ UNCHANGED ledger
  /\ LET auth == require_auth(u, {"seller", "supplier"})
         reply(code, detail, orders, n) ==
           /\ response' = Response("get_daily_orders", code, detail, NoPdf, orders)
           /\ fetches' = n
     IN IF auth # 0 THEN reply(auth, AuthDetail(auth), NoOrders, 0)
        ELSE IF SellerStoreRefused(u, camp) THEN reply(403, "forbidden", NoOrders, 0)
        ELSE IF ~live.ok THEN reply(500, "error", NoOrders, FetchCalls(live))
        ELSE reply(200, "success",
                   [o \in live.orders |-> DailyOverlay(ViewDaily(w), o, camp)],
                   FetchCalls(live))
  /\ UNCHANGED <<daily_orders, return_status, txn, pc, req, now,
                 latest, lastRole, delivered>>

----------------------------------------------------------------------------
(* Table return_status and the return workflow *)

ReturnConflictsNone(t, row) == {}

\* UNIQUE(order_id, campaign_id): the rows an inserted row collides with.
ReturnConflicts(t, row) ==
  {i \in 1..Len(t) : t[i].order_id = row.order_id /\ t[i].campaign_id = row.campaign_id}

SupplierAcceptRowWithProduct(order, camp, username, ts) ==
  [order_id |-> order, campaign_id |-> camp,
   product_name |-> <<"offerName", order>>, sku |-> <<"offerId", order>>, quantity |-> 1,
   supplier_status |-> "accepted", seller_status |-> "pending",
   supplier_username |-> username, seller_username |-> NULL,
   supplier_accepted_at |-> ts, supplier_delivered_at |-> NoTime,
   seller_accepted_at |-> NoTime, created_at |-> ts]

SupplierAcceptRowNamesSeller(order, camp, username, ts) ==
  [order_id |-> order, campaign_id |-> camp,
   product_name |-> NULL, sku |-> NULL, quantity |-> NULL,
   supplier_status |-> "accepted", seller_status |-> "pending",
   supplier_username |-> username, seller_username |-> username,
   supplier_accepted_at |-> ts, supplier_delivered_at |-> NoTime,
   seller_accepted_at |-> NoTime, created_at |-> ts]

\* VALUES of supplier_accept_return's INSERT OR REPLACE; unnamed columns take
\* their defaults (statuses 'pending', NULL elsewhere, created_at now).
SupplierAcceptRow(order, camp, username, ts) ==
  [order_id |-> order, campaign_id |-> camp,
   product_name |-> NULL, sku |-> NULL, quantity |-> NULL,
   supplier_status |-> "accepted", seller_status |-> "pending",
   supplier_username |-> username, seller_username |-> NULL,
   supplier_accepted_at |-> ts, supplier_delivered_at |-> NoTime,
   seller_accepted_at |-> NoTime, created_at |-> ts]

DeliverMatchesAnyOwner(row, order, camp, username) ==
  row.order_id = order /\ row.campaign_id = camp

\* WHERE order_id = ? AND campaign_id = ? AND supplier_username = ?
DeliverMatches(row, order, camp, username) ==
  row.order_id = order /\ row.campaign_id = camp /\ row.supplier_username = username

SellerAcceptMatchesAnyStatus(row, order, camp) ==
  row.order_id = order /\ row.campaign_id = camp

\* WHERE order_id = ? AND campaign_id = ? AND supplier_status = 'delivered'
SellerAcceptMatches(row, order, camp) ==
  row.order_id = order /\ row.campaign_id = camp /\ row.supplier_status = "delivered"

\* generate_return_pdf(items, role, date_str, username) for the single item
\* built from row: the outcomes it can have.  item.get("product_name", "")[:45]
\* raises TypeError on a NULL product_name; otherwise the file is written
\* (or the write fails).
generate_return_pdf(row, role, username) ==
  IF row.product_name = NULL THEN {RAISED}
  ELSE {<<"temp/return", role, username>>, RAISED}

\* POST /api/supplier/accept_return up to its INSERT OR REPLACE.
supplier_accept_return(w, u, order, camp) ==
  /\ pc[w] = "idle"
  /\ UNCHANGED gate
  /\ UNCHANGED users
  /\ fetches' = 0
  /\ UNCHANGED ledger
  /\ LET auth == require_auth(u, {"supplier"})
         fail(code, detail) ==
           /\ response' = Response("supplier_accept_return", code, detail, NoPdf, NoOrders)
           /\ UNCHANGED <<daily_orders, return_status, txn, pc, req, now,
                          latest, lastRole, delivered>>
     IN IF auth # 0 THEN fail(auth, AuthDetail(auth))
        ELSE IF order = NULL \/ camp = NULL THEN fail(400, "required")
        ELSE IF ~CanWrite(w) THEN fail(500, "locked")
        ELSE /\ LET row == SupplierAcceptRow(order, camp, u, now)
                IN txn' = [owner |-> w,
                           daily |-> daily_orders,
                           ret |-> InsertOrReplace(return_status, row,
                                                   ReturnConflicts(return_status, row))]
             /\ pc' = [pc EXCEPT ![w] = "commit_accept"]
             /\ req' = [req EXCEPT ![w] = [op |-> "supplier_accept_return", user |-> u,
                                           order |-> order, camp |-> camp,
                                           decision |-> NULL, pdf |-> NoPdf]]
             /\ response' = NoResponse
             /\ UNCHANGED <<daily_orders, return_status, now,
                            latest, lastRole, delivered>>

\* g.db.commit() of supplier_accept_return and its success response.
supplier_accept_return_commit(w) ==
  /\ pc[w] = "commit_accept"
  /\ UNCHANGED gate
  /\ UNCHANGED users
  /\ fetches' = 0
  /\ UNCHANGED ledger
  /\ daily_orders' = txn.daily
  /\ return_status' = txn.ret
  /\ txn' = NoTxn
  /\ pc' = [pc EXCEPT ![w] = "idle"]
  /\ req' = [req EXCEPT ![w] = NoRequest]
  /\ response' = Response("supplier_accept_return", 200, "success", NoPdf, NoOrders)
  /\ UNCHANGED <<now, latest, lastRole, delivered>>

DeliverUpdateNoTimestamp(row, ts) ==
  [row EXCEPT !.supplier_status = "delivered"]

\* The UPDATE of supplier_deliver_return applied to one row.
DeliverUpdate(row, ts) ==
  [row EXCEPT !.supplier_status = "delivered", !.supplier_delivered_at = ts]

\* The UPDATE of seller_accept_return applied to one row.
SellerAcceptUpdate(row, username, ts) ==
  [row EXCEPT !.seller_status = "accepted", !.seller_username = username,
              !.seller_accepted_at = ts]

\* POST /api/supplier/deliver_return up to the rowcount test after its UPDATE.
supplier_deliver_return(w, u, order, camp) ==
  /\ pc[w] = "idle"
  /\ UNCHANGED gate
  /\ UNCHANGED users
  /\ fetches' = 0
  /\ UNCHANGED ledger
  /\ LET auth == require_auth(u, {"supplier"})
         hit(i) == DeliverMatches(return_status[i], order, camp, u)
         rowcount == Cardinality({i \in 1..Len(return_status) : hit(i)})
         fail(code, detail) ==
           /\ response' = Response("supplier_deliver_return", code, detail, NoPdf, NoOrders)
           /\ UNCHANGED <<daily_orders, return_status, txn, pc, req, now,
                          latest, lastRole, delivered>>
     IN IF auth # 0 THEN fail(auth, AuthDetail(auth))
        ELSE IF order = NULL \/ camp = NULL THEN fail(400, "required")
        ELSE IF ~CanWrite(w) THEN fail(500, "locked")
        ELSE IF rowcount = 0 THEN fail(400, "not_found")
        ELSE /\ txn' = [owner |-> w,
                        daily |-> daily_orders,
                        ret |-> [i \in 1..Len(return_status) |->
                                   IF hit(i) THEN DeliverUpdate(return_status[i], now)
                                   ELSE return_status[i]]]
             /\ pc' = [pc EXCEPT ![w] = "render_deliver"]
             /\ req' = [req EXCEPT ![w] = [op |-> "supplier_deliver_return", user |-> u,
                                           order |-> order, camp |-> camp,
                                           decision |-> NULL, pdf |-> NoPdf]]
             /\ response' = NoResponse
             /\ UNCHANGED <<daily_orders, return_status, now,
                            latest, lastRole, delivered>>

\* POST /api/seller/accept_return up to the rowcount test after its UPDATE.
seller_accept_return(w, u, order, camp) ==
  /\ pc[w] = "idle"
  /\ UNCHANGED gate
  /\ UNCHANGED users
  /\ fetches' = 0
  /\ UNCHANGED ledger
  /\ LET auth == require_auth(u, {"seller"})
         hit(i) == SellerAcceptMatches(return_status[i], order, camp)
         rowcount == Cardinality({i \in 1..Len(return_status) : hit(i)})
         fail(code, detail) ==
           /\ response' = Response("seller_accept_return", code, detail, NoPdf, NoOrders)
           /\ UNCHANGED <<daily_orders, return_status, txn, pc, req, now,
                          latest, lastRole, delivered>>
     IN IF auth # 0 THEN fail(auth, AuthDetail(auth))
        ELSE IF order = NULL \/ camp = NULL THEN fail(400, "required")
        ELSE IF ~CanWrite(w) THEN fail(500, "locked")
        ELSE IF rowcount = 0 THEN fail(400, "not_found")
        ELSE /\ txn' = [owner |-> w,
                        daily |-> daily_orders,
                        ret |-> [i \in 1..Len(return_status) |->
                                   IF hit(i) THEN SellerAcceptUpdate(return_status[i], u, now)
                                   ELSE return_status[i]]]
             /\ pc' = [pc EXCEPT ![w] = "render_seller"]
             /\ req' = [req EXCEPT ![w] = [op |-> "seller_accept_return", user |-> u,
                                           order |-> order, camp |-> camp,
                                           decision |-> NULL, pdf |-> NoPdf]]
             /\ response' = NoResponse
             /\ UNCHANGED <<daily_orders, return_status, now,
                            latest, lastRole, delivered>>

AfterRenderPropagates(out, next) == IF out = RAISED THEN "idle" ELSE next

\* Where the handler goes on after its try block: `except Exception` logs the
\* error, so the statements after the block run whether the renderer raised
\* or not.
AfterRender(out, next) == next

\* The try block of supplier_deliver_return / seller_accept_return: re-read the
\* row inside the open transaction and render its single line item; an
\* exception is logged and leaves pdf_filename unbound.
RenderReturnPdf(w, role, at, next) ==
  /\ pc[w] = at
  /\ UNCHANGED gate
  /\ UNCHANGED users
  /\ fetches' = 0
  /\ UNCHANGED ledger
  /\ LET row == FetchOne(ViewReturn(w), req[w].order, req[w].camp)
     IN \E out \in IF row = <<>> THEN {NoPdf}
                   ELSE generate_return_pdf(row[1], role, req[w].user) :
          /\ req' = [req EXCEPT ![w].pdf = IF out = RAISED THEN NoPdf ELSE out]
          /\ pc' = [pc EXCEPT ![w] = AfterRender(out, next)]
  /\ response' = NoResponse
  /\ UNCHANGED <<daily_orders, return_status, txn, now,
                 latest, lastRole, delivered>>

supplier_deliver_return_pdf(w) ==
  RenderReturnPdf(w, "supplier", "render_deliver", "commit_deliver")

seller_accept_return_pdf(w) ==
  RenderReturnPdf(w, "seller", "render_seller", "commit_seller")

\* g.db.commit() of supplier_deliver_return and its success response.
supplier_deliver_return_commit(w) ==
  /\ pc[w] = "commit_deliver"
  /\ UNCHANGED gate
  /\ UNCHANGED users
  /\ fetches' = 0
  /\ UNCHANGED ledger
  /\ daily_orders' = txn.daily
  /\ return_status' = txn.ret
  /\ txn' = NoTxn
  /\ pc' = [pc EXCEPT ![w] = "idle"]
  /\ req' = [req EXCEPT ![w] = NoRequest]
  /\ response' = Response("supplier_deliver_return", 200, "success", req[w].pdf, NoOrders)
  /\ delivered' = delivered \cup {<<req[w].order, req[w].camp>>}
  /\ UNCHANGED <<now, latest, lastRole>>

\* g.db.commit() of seller_accept_return and its success response.
seller_accept_return_commit(w) ==
  /\ pc[w] = "commit_seller"
  /\ UNCHANGED gate
  /\ UNCHANGED users
  /\ fetches' = 0
  /\ UNCHANGED ledger
  /\ daily_orders' = txn.daily
  /\ return_status' = txn.ret
  /\ txn' = NoTxn
  /\ pc' = [pc EXCEPT ![w] = "idle"]
  /\ req' = [req EXCEPT ![w] = NoRequest]
  /\ response' = Response("seller_accept_return", 200, "success", req[w].pdf, NoOrders)
  /\ UNCHANGED <<now, latest, lastRole, delivered>>

----------------------------------------------------------------------------
(* Tables decisions, accepted_returned, processed_orders and save_decisions *)

\* A line item d of the request body carries order_id, campaign_id and
\* decision as the client sent them (NULL: the key is missing or null); the
\* client leaves out warehouse, product_name, quantity, sku and barcode, so
\* d.get takes their defaults.

\* VALUES of the INSERT INTO decisions for line item d.
DecisionRow(d, username, role, temp_save, ts) ==
  [order_id |-> d.order_id, decision |-> d.decision,
   warehouse |-> "", product_name |-> "", quantity |-> 1, sku |-> "", barcode |-> "",
   username |-> username, role |-> role,
   main_save |-> IF temp_save THEN 0 ELSE 1, timestamp |-> ts]

AcceptedReturnedRowNoOnly(d, username, role, ts) ==
  [campaign_id |-> d.campaign_id, order_id |-> d.order_id,
   product_name |-> "", quantity |-> 1,
   status |-> IF d.decision = "no" THEN "returned" ELSE "accepted",
   seller_username |-> IF role = "seller" THEN username ELSE "",
   supplier_username |-> IF role = "supplier" THEN username ELSE "",
   timestamp |-> ts]

\* VALUES of the INSERT INTO accepted_returned for line item d.
AcceptedReturnedRow(d, username, role, ts) ==
  [campaign_id |-> d.campaign_id, order_id |-> d.order_id,
   product_name |-> "", quantity |-> 1,
   status |-> IF d.decision = "yes" THEN "accepted" ELSE "returned",
   seller_username |-> IF role = "seller" THEN username ELSE "",
   supplier_username |-> IF role = "supplier" THEN username ELSE "",
   timestamp |-> ts]

\* The NOT NULL constraints of the two tables: the INSERT raises
\* sqlite3.IntegrityError.
DecisionInsertFails(row) == row.order_id = NULL \/ row.decision = NULL
AcceptedReturnedInsertFails(row) == row.campaign_id = NULL \/ row.order_id = NULL

LedgerInsertOrReplace(t, row) ==
  InsertOrReplace(t, row, {i \in 1..Len(t) : t[i].order_id = row.order_id})

\* A plain INSERT: the row gets the next AUTOINCREMENT id.
LedgerInsert(t, row) == Append(t, row)

RECURSIVE InsertItems(_, _, _, _, _, _)
\* The for loop of save_decisions from item i on, run on the tables l of the
\* transaction: two INSERTs per line item, until one of them raises.
InsertItems(l, items, i, u, temp_save, ts) ==
  IF i > Len(items) THEN [dec |-> l.dec, ar |-> l.ar, raised |-> FALSE]
  ELSE LET drow == DecisionRow(items[i], u, users[u].role, temp_save, ts)
           arow == AcceptedReturnedRow(items[i], u, users[u].role, ts)
       IN IF DecisionInsertFails(drow)
          THEN [dec |-> l.dec, ar |-> l.ar, raised |-> TRUE]
          ELSE IF AcceptedReturnedInsertFails(arow)
          THEN [dec |-> LedgerInsert(l.dec, drow), ar |-> l.ar, raised |-> TRUE]
          ELSE InsertItems([dec |-> LedgerInsert(l.dec, drow),
                            ar |-> LedgerInsert(l.ar, arow)],
                           items, i + 1, u, temp_save, ts)

\* COALESCE((SELECT count FROM processed_orders WHERE username = ?), 0)
CounterOf(po, username) ==
  LET hits == {i \in 1..Len(po) : po[i].username = username}
  IN IF hits = {} THEN 0 ELSE po[CHOOSE i \in hits : TRUE].count

CounterUpsertOverwrite(po, username, n) ==
  InsertOrReplace(po, [username |-> username, count |-> n],
                  {i \in 1..Len(po) : po[i].username = username})

CounterUpsertOnce(po, username, n) ==
  InsertOrReplace(po, [username |-> username, count |-> CounterOf(po, username) + 1],
                  {i \in 1..Len(po) : po[i].username = username})

\* INSERT OR REPLACE INTO processed_orders (username, count) VALUES (?, COALESCE(...) + ?);
\* username is the PRIMARY KEY.
CounterUpsert(po, username, n) ==
  InsertOrReplace(po, [username |-> username, count |-> CounterOf(po, username) + n],
                  {i \in 1..Len(po) : po[i].username = username})

\* The answer of save_decisions; its pdf field holds the list `files`.
SaveResponse(code, detail, files) ==
  Response("save_decisions", code, detail, files, NoOrders)

\* POST /api/save up to the INSERT OR REPLACE of the counter, or up to the
\* INSERT that raises.
save_decisions(w, u, items, temp_save) ==
  /\ pc[w] = "idle"
  /\ UNCHANGED gate
  /\ UNCHANGED users
  /\ fetches' = 0
  /\ LET auth == require_auth(u, {"seller", "supplier"})
         fail(code, detail) ==
           /\ response' = SaveResponse(code, detail, <<>>)
           /\ UNCHANGED <<daily_orders, return_status, txn, pc, req, now,
                          latest, lastRole, delivered, ledger>>
     IN IF auth # 0 THEN fail(auth, AuthDetail(auth))
        ELSE IF items = <<>> THEN fail(400, "required")
        ELSE IF ~CanWrite(w) THEN fail(500, "locked")
        ELSE /\ Len(decisions) + Len(items) <= MaxLedgerRows
             /\ LET l == InsertItems([dec |-> decisions, ar |-> accepted_returned],
                                     items, 1, u, temp_save, now)
                IN /\ ltxn' = [decisions |-> l.dec,
                               accepted_returned |-> l.ar,
                               processed_orders |->
                                 IF l.raised THEN processed_orders
                                 ELSE CounterUpsert(processed_orders, u, Len(items))]
                   /\ pc' = [pc EXCEPT ![w] = IF l.raised THEN "teardown_save"
                                              ELSE "commit_save"]
             /\ txn' = [owner |-> w, daily |-> daily_orders, ret |-> return_status]
             /\ call' = [call EXCEPT ![w] = [user |-> u, items |-> items,
                                             temp_save |-> temp_save]]
             /\ response' = NoResponse
             /\ UNCHANGED <<daily_orders, return_status, req, now,
                            latest, lastRole, delivered,
                            decisions, accepted_returned, processed_orders, saved>>

\* g.db.commit() of save_decisions.
save_decisions_commit(w) ==
  /\ pc[w] = "commit_save"
  /\ UNCHANGED gate
  /\ UNCHANGED users
  /\ fetches' = 0
  /\ decisions' = ltxn.decisions
  /\ accepted_returned' = ltxn.accepted_returned
  /\ processed_orders' = ltxn.processed_orders
  /\ daily_orders' = txn.daily
  /\ return_status' = txn.ret
  /\ txn' = NoTxn
  /\ ltxn' = NoLedgerTxn
  /\ pc' = [pc EXCEPT ![w] = "render_save"]
  /\ saved' = [saved EXCEPT ![call[w].user] = Append(@, Len(call[w].items))]
  /\ response' = NoResponse
  /\ UNCHANGED <<req, now, latest, lastRole, delivered, call>>

SaveManifestsAnyRole(items, u) ==
  LET has(dec) == \E i \in 1..Len(items) : items[i].decision = dec
  IN (IF has("yes") THEN << <<"temp/positive_report", u>> >> ELSE <<>>)
     \o (IF has("no") THEN << <<"temp/negative_report", u>> >> ELSE <<>>)
     \o (IF has("no") THEN << <<"temp/returned_report", u>> >> ELSE <<>>)

\* The manifests a final save renders, in order: generate_pdf for the yes
\* decisions, generate_pdf for the no decisions, generate_returned_pdf for a
\* supplier's no decisions.
SaveManifests(items, u) ==
  LET has(dec) == \E i \in 1..Len(items) : items[i].decision = dec
  IN (IF has("yes") THEN << <<"temp/positive_report", u>> >> ELSE <<>>)
     \o (IF has("no") THEN << <<"temp/negative_report", u>> >> ELSE <<>>)
     \o (IF has("no") /\ users[u].role = "supplier"
         THEN << <<"temp/returned_report", u>> >> ELSE <<>>)

\* The try block around the renderer calls: pdf_filenames holds the manifests
\* written before the first call that raised, all of them when none did.
RenderedFiles(planned) == {SubSeq(planned, 1, n) : n \in 0..Len(planned)}

\* save_decisions after its commit: the manifests of a final save and the
\* success response.
save_decisions_pdf(w) ==
  /\ pc[w] = "render_save"
  /\ UNCHANGED gate
  /\ UNCHANGED users
  /\ fetches' = 0
  /\ \E files \in IF call[w].temp_save THEN {<<>>}
                  ELSE RenderedFiles(SaveManifests(call[w].items, call[w].user)) :
       response' = SaveResponse(200, "saved", files)
  /\ pc' = [pc EXCEPT ![w] = "idle"]
  /\ call' = [call EXCEPT ![w] = NoCall]
  /\ UNCHANGED <<daily_orders, return_status, txn, req, now,
                 latest, lastRole, delivered,
                 decisions, accepted_returned, processed_orders, ltxn, saved>>

\* teardown_request(exception) after an INSERT of save_decisions raised:
\* g.db.commit() runs first and publishes what the transaction had written,
\* the rollback() after it finds nothing to undo; the client gets a 500.
teardown_request(w) ==
  /\ pc[w] = "teardown_save"
  /\ UNCHANGED gate
  /\ UNCHANGED users
  /\ fetches' = 0
  /\ decisions' = ltxn.decisions
  /\ accepted_returned' = ltxn.accepted_returned
  /\ processed_orders' = ltxn.processed_orders
  /\ daily_orders' = txn.daily
  /\ return_status' = txn.ret
  /\ txn' = NoTxn
  /\ ltxn' = NoLedgerTxn
  /\ pc' = [pc EXCEPT ![w] = "idle"]
  /\ call' = [call EXCEPT ![w] = NoCall]
  /\ response' = SaveResponse(500, "error", <<>>)
  /\ UNCHANGED <<req, now, latest, lastRole, delivered, saved>>

----------------------------------------------------------------------------
(* Old orders: GET /api/old_orders *)

\* The 30 days of date('now', '-30 days'), in ticks of the model clock.
OldDays == 1

\* date(timestamp) < date('now', '-30 days')
IsOld(row, t) == row.timestamp < t - OldDays

\* The columns of table decisions, and the columns the WHERE clause of the
\* seller's SELECT names.
DecisionColumns ==
  {"id", "order_id", "decision", "warehouse", "product_name", "quantity", "sku",
   "barcode", "username", "role", "main_save", "timestamp"}
SellerOldOrdersColumns == {"username", "role", "timestamp", "campaign_id"}

RECURSIVE OrderByDesc(_, _)
\* ORDER BY col DESC; rows with equal values stay in rowid order.
OrderByDesc(t, col) ==
  IF t = <<>> THEN <<>>
  ELSE LET top == CHOOSE i \in 1..Len(t) :
                    /\ \A j \in 1..Len(t) : t[j][col] <= t[i][col]
                    /\ \A j \in 1..(i - 1) : t[j][col] < t[i][col]
       IN <<t[top]>> \o OrderByDesc(SelectSeq2(t, {top}, 1), col)

\* The rows of t, in rowid order, whose positions are in hits (the rows that
\* satisfy the WHERE clause).
FilterRows(t, hits) == SelectSeq2(t, (1..Len(t)) \ hits, 1)

AllRoles == {"seller", "supplier", "admin"}

\* GET /api/old_orders.  The seller's statement cannot be prepared when it
\* names a column the table does not have: sqlite3.OperationalError, the
\* request ends with a 500.  (LIMIT 100 / 200 is above MaxLedgerRows.)
get_old_orders(w, u) ==
  /\ pc[w] = "idle"
  /\ LET auth == require_auth(u, AllRoles)
         reply(code, detail, rows) ==
           response' = Response("get_old_orders", code, detail, NoPdf, rows)
         view == IF txn.owner = w THEN ltxn.decisions ELSE decisions
         OwnOld == {i \in 1..Len(view) :
                      /\ view[i].username = u
                      /\ view[i].role = users[u].role
                      /\ IsOld(view[i], now)}
         AnyOld == {i \in 1..Len(view) : IsOld(view[i], now)}
     IN IF auth # 0 THEN reply(auth, AuthDetail(auth), NoOrders)
        ELSE IF users[u].role = "seller"
             THEN IF SellerOldOrdersColumns \subseteq DecisionColumns
                  THEN reply(200, "success", OrderByDesc(FilterRows(view, OwnOld), "timestamp"))
                  ELSE reply(500, "error", NoOrders)
        ELSE IF users[u].role = "supplier"
             THEN reply(200, "success", OrderByDesc(FilterRows(view, OwnOld), "timestamp"))
        ELSE reply(200, "success", OrderByDesc(FilterRows(view, AnyOld), "timestamp"))
  /\ UNCHANGED <<daily_orders, return_status, txn, pc, req, now,
                 latest, lastRole, delivered, ledger, gate, users>>
  /\ fetches' = 0

----------------------------------------------------------------------------
(* Returned orders of a seller: GET /api/seller/returned_orders *)

ReturnedToSellerAnyStatus(row, camp) == row.campaign_id = camp

\* WHERE campaign_id = ? AND supplier_status = 'delivered'
ReturnedToSeller(row, camp) ==
  row.campaign_id = camp /\ row.supplier_status = "delivered"

\* What fetch_single_order can do for one order: return None (no API token,
\* a status other than 200, an exception it logs itself), raise, or return
\* the order's data.
EnrichOutcomes == {"none", "raised", "ok"}

\* The dict fetch_single_order returns for an order the marketplace knows.
YandexOrder(order) ==
  [product_name |-> <<"offerName", order>>, sku |-> <<"offerId", order>>,
   quantity |-> 1, price |-> 1, warehouse |-> "outlet"]

\* dict.update: the keys of extra replace or extend those of data.
DictUpdate(data, extra) ==
  [f \in DOMAIN data \cup DOMAIN extra |-> IF f \in DOMAIN extra THEN extra[f] ELSE data[f]]

\* The body of the for loop: order_data = dict(row), updated with the
\* marketplace's data when the call returned some; the bare except leaves
\* order_data as it is.
EnrichedEntry(row, outcome) ==
  IF outcome = "ok" THEN DictUpdate(row, YandexOrder(row.order_id)) ELSE row

\* GET /api/seller/returned_orders?campaign_id=camp; enrich tells, per order,
\* what fetch_single_order does.
get_seller_returned_orders(w, u, camp, enrich) ==
  /\ pc[w] = "idle"
  /\ LET auth == require_auth(u, {"seller"})
         reply(code, detail, list, n) ==
           /\ response' = Response("get_seller_returned_orders", code, detail, NoPdf, list)
           /\ fetches' = n
         view == ViewReturn(w)
         hits == {i \in 1..Len(view) : ReturnedToSeller(view[i], camp)}
         rows == OrderByDesc(FilterRows(view, hits), "supplier_delivered_at")
     IN IF auth # 0 THEN reply(auth, AuthDetail(auth), NoOrders, 0)
        ELSE IF camp = NULL THEN reply(400, "required", NoOrders, 0)
        ELSE IF camp \notin users[u].assigned_stores THEN reply(403, "forbidden", NoOrders, 0)
        ELSE reply(200, "success",
                   [i \in 1..Len(rows) |-> EnrichedEntry(rows[i], enrich[rows[i].order_id])],
                   Len(rows))
  /\ UNCHANGED <<daily_orders, return_status, txn, pc, req, now,
                 latest, lastRole, delivered, ledger, gate, users>>

----------------------------------------------------------------------------
(* The order lists: GET /api/orders, /api/today_orders, /api/canceled_orders *)

\* jsonify(orders) of what fetch_yandex_orders returned, per order id.
LiveOrders(live) == [o \in live.orders |-> [order_id |-> o]]

\* The body shared by get_orders and get_today_orders: the seller's store
\* check, then the PROCESSING orders of the campaign.
FetchedList(op, u, camp, live) ==
  LET auth == require_auth(u, AllRoles)
      reply(code, detail, orders, n) ==
        /\ response' = Response(op, code, detail, NoPdf, orders)
        /\ fetches' = n
  IN IF auth # 0 THEN reply(auth, AuthDetail(auth), NoOrders, 0)
     ELSE IF SellerStoreRefused(u, camp) THEN reply(403, "forbidden", NoOrders, 0)
     ELSE IF ~live.ok THEN reply(500, "error", NoOrders, FetchCalls(live))
     ELSE reply(200, "success", LiveOrders(live), FetchCalls(live))

\* GET /api/orders/<campaign_id>
get_orders(w, u, camp, live) ==
  /\ pc[w] = "idle"
  /\ FetchedList("get_orders", u, camp, live)
  /\ UNCHANGED <<daily_orders, return_status, txn, pc, req, now,
                 latest, lastRole, delivered, ledger, gate, users>>

\* GET /api/today_orders/<campaign_id>
get_today_orders(w, u, camp, live) ==
  /\ pc[w] = "idle"
  /\ FetchedList("get_today_orders", u, camp, live)
  /\ UNCHANGED <<daily_orders, return_status, txn, pc, req, now,
                 latest, lastRole, delivered, ledger, gate, users>>

RECURSIVE JoinCanceled(_, _, _, _)
\* SELECT d.* FROM decisions d JOIN accepted_returned ar ON d.order_id =
\* ar.order_id WHERE ar.campaign_id = ? AND d.role = 'supplier' AND
\* d.decision = 'yes': one result row per matching pair, from row i of d on.
JoinCanceled(d, ar, camp, i) ==
  IF i > Len(d) THEN <<>>
  ELSE LET pairs == {j \in 1..Len(ar) :
                       /\ ar[j].order_id = d[i].order_id
                       /\ ar[j].campaign_id = camp
                       /\ d[i].role = "supplier"
                       /\ d[i].decision = "yes"}
       IN [k \in 1..Cardinality(pairs) |-> d[i]] \o JoinCanceled(d, ar, camp, i + 1)

\* GET /api/canceled_orders/<campaign_id>: a seller gets the supplier's yes
\* decisions of the campaign from the ledger, the other roles the CANCELLED
\* orders of the marketplace.
get_canceled_orders(w, u, camp, live) ==
  /\ pc[w] = "idle"
  /\ LET auth == require_auth(u, AllRoles)
         reply(code, detail, orders, n) ==
           /\ response' = Response("get_canceled_orders", code, detail, NoPdf, orders)
           /\ fetches' = n
         d == IF txn.owner = w THEN ltxn.decisions ELSE decisions
         ar == IF txn.owner = w THEN ltxn.accepted_returned ELSE accepted_returned
     IN IF auth # 0 THEN reply(auth, AuthDetail(auth), NoOrders, 0)
        ELSE IF users[u].role = "seller"
             THEN IF SellerStoreRefused(u, camp) THEN reply(403, "forbidden", NoOrders, 0)
                  ELSE reply(200, "success", JoinCanceled(d, ar, camp, 1), 0)
        ELSE IF ~live.ok THEN reply(500, "error", NoOrders, FetchCalls(live))
        ELSE reply(200, "success", LiveOrders(live), FetchCalls(live))
  /\ UNCHANGED <<daily_orders, return_status, txn, pc, req, now,
                 latest, lastRole, delivered, ledger, gate, users>>

----------------------------------------------------------------------------
(* The supplier's order queue *)

\* WHERE role = 'seller' AND main_save = 0 AND decision = 'yes': the ids of
\* the rows it selects (a row's id is its position in the table).
SupplierQueue(t) ==
  {i \in 1..Len(t) : t[i].role = "seller" /\ t[i].main_save = 0 /\ t[i].decision = "yes"}

\* The dictionary supplier_get_orders builds from row i.
QueueEntry(t, i) ==
  [id |-> i, order_id |-> t[i].order_id, decision |-> t[i].decision,
   warehouse |-> t[i].warehouse, product_name |-> t[i].product_name,
   quantity |-> t[i].quantity, sku |-> t[i].sku, barcode |-> t[i].barcode,
   username |-> t[i].username]

RECURSIVE QueueEntries(_, _)
\* The result list of supplier_get_orders from row i on, in rowid order.
QueueEntries(t, i) ==
  IF i > Len(t) THEN <<>>
  ELSE IF i \in SupplierQueue(t) THEN <<QueueEntry(t, i)>> \o QueueEntries(t, i + 1)
       ELSE QueueEntries(t, i + 1)

\* GET /api/supplier/orders
supplier_get_orders(w, u) ==
  /\ pc[w] = "idle"
  /\ LET auth == require_auth(u, {"supplier"})
         reply(code, detail, rows) ==
           response' = Response("supplier_get_orders", code, detail, NoPdf, rows)
         view == IF txn.owner = w THEN ltxn.decisions ELSE decisions
     IN IF auth # 0 THEN reply(auth, AuthDetail(auth), NoOrders)
        ELSE reply(200, "success", QueueEntries(view, 1))
  /\ UNCHANGED <<daily_orders, return_status, txn, pc, req, now,
                 latest, lastRole, delivered, ledger, gate, users>>
  /\ fetches' = 0

----------------------------------------------------------------------------
(* Sessions, maintenance mode and the request pipeline *)

\* sha256_hex(s): a one-way digest, never equal to its argument.
sha256_hex(str) == <<"sha256", str>>

\* The session tokens uuid.uuid4() can return, and a token nobody was given.
Tokens == {"t1", "t2", "t3"}
ForgedToken == "tx"

\* The passwords whose hashes config.json stores.
Passwords == [u \in Users |-> <<"password of", u>>]
\* user.get("password_hash", "")
password_hash(u) == users[u].password_hash

\* The 8 hours of a session (3600 * 8 seconds), in ticks of the model clock.
SessionTTL == 1

\* VALUES of login's INSERT OR REPLACE INTO sessions.
SessionRow(token, username, ts) ==
  [token_hash |-> sha256_hex(token), username |-> username, expiry |-> ts + SessionTTL]

\* SELECT username, expiry FROM sessions WHERE token_hash = ?: <<>> or <<row>>.
SessionOf(t, token) ==
  LET hits == {i \in 1..Len(t) : t[i].token_hash = sha256_hex(token)}
  IN IF hits = {} THEN <<>> ELSE <<t[CHOOSE i \in hits : TRUE]>>

\* DELETE FROM sessions WHERE token_hash = ?
DeleteSession(t, token) ==
  SelectSeq2(t, {i \in 1..Len(t) : t[i].token_hash = sha256_hex(token)}, 1)

SessionNeverExpires(row, t) == FALSE

\* datetime.now().timestamp() > expiry
SessionExpired(row, t) == t > row.expiry

\* get_user_from_token(token): the user it returns (NULL for None) and
\* whether it deletes the session row as expired.  token is NULL when the
\* header is missing or empty.
get_user_from_token(token) ==
  IF token = NULL THEN [user |-> NULL, evict |-> FALSE]
  ELSE LET row == SessionOf(sessions, token)
       IN IF row = <<>> THEN [user |-> NULL, evict |-> FALSE]
          ELSE IF SessionExpired(row[1], now) THEN [user |-> NULL, evict |-> TRUE]
          ELSE [user |-> IF row[1].username \in Users THEN row[1].username ELSE NULL,
                evict |-> FALSE]

MaintenanceCoversButLogin(path) ==
  path[1] = "api" /\ path[Len(path)] \notin {"public_url", "login"}

\* The condition of check_maintenance on the request path (a path is the
\* sequence of its segments): under /api/ and not ending in /public_url.
MaintenanceCovers(path) == path[1] = "api" /\ path[Len(path)] # "public_url"

\* check_maintenance refuses the request: the flag is set, the path is
\* covered and the token is not one of an admin's session.
MaintenanceBlocks(token, path) ==
  /\ MAINTENANCE_MODE
  /\ MaintenanceCovers(path)
  /\ LET user == get_user_from_token(token).user
     IN user = NULL \/ users[user].role # "admin"

\* A step that answers without running a handler; the lookup of an expired
\* token has deleted its session row and committed.
Refuse(w, token, op, code, detail) ==
  /\ pc[w] = "idle"
  /\ response' = Response(op, code, detail, NoPdf, NoOrders)
  /\ sessions' = IF get_user_from_token(token).evict /\ CanWrite(w)
                 THEN DeleteSession(sessions, token) ELSE sessions
  /\ UNCHANGED <<daily_orders, return_status, txn, pc, req, now,
                 latest, lastRole, delivered, ledger,
                 MAINTENANCE_MODE, issued, revoked, users>>
  /\ fetches' = 0

\* A request to a route behind require_auth: check_maintenance, then the
\* token lookup of require_auth, then the handler H, which runs with the user
\* the lookup found.
ApiCall(w, token, op, path, H) ==
  LET look == get_user_from_token(token)
  IN IF MaintenanceBlocks(token, path) THEN Refuse(w, token, op, 423, "maintenance")
     ELSE IF look.evict
          THEN IF CanWrite(w) THEN Refuse(w, token, op, 401, "unauthorized")
               ELSE Refuse(w, token, op, 500, "locked")
     ELSE H

\* A request to a route without require_auth: check_maintenance, then the
\* handler.
OpenCall(w, token, op, path, H) ==
  IF MaintenanceBlocks(token, path) THEN Refuse(w, token, op, 423, "maintenance")
  ELSE H

\* GET /api/public_url
get_public_url(w) ==
  /\ pc[w] = "idle"
  /\ response' = Response("get_public_url", 200, "success", NoPdf, NoOrders)
  /\ UNCHANGED <<daily_orders, return_status, txn, pc, req, now,
                 latest, lastRole, delivered, ledger, gate, users>>
  /\ fetches' = 0

\* POST /api/login; token is what uuid.uuid4() returns, a value it never
\* returned before.
login(w, username, password, token) ==
  /\ pc[w] = "idle"
  /\ LET fail(code, detail) ==
           /\ response' = Response("login", code, detail, NoPdf, NoOrders)
           /\ UNCHANGED <<sessions, issued>>
     IN IF username = NULL \/ password = NULL THEN fail(400, "required")
        ELSE IF username \notin Users THEN fail(401, "unauthorized")
        ELSE IF sha256_hex(password) # password_hash(username) THEN fail(401, "unauthorized")
        ELSE IF ~CanWrite(w) THEN fail(500, "locked")
        ELSE /\ token \in Tokens \ issued
             /\ LET row == SessionRow(token, username, now)
                IN sessions' = InsertOrReplace(sessions, row,
                                 {i \in 1..Len(sessions) : sessions[i].token_hash = row.token_hash})
             /\ issued' = issued \cup {token}
             /\ response' = Response("login", 200, "success", NoPdf, NoOrders)
  /\ UNCHANGED <<daily_orders, return_status, txn, pc, req, now,
                 latest, lastRole, delivered, ledger, MAINTENANCE_MODE, revoked, users>>
  /\ fetches' = 0

\* POST /api/logout, called with the token of user u's session.
logout(w, u, token) ==
  /\ pc[w] = "idle"
  /\ LET auth == require_auth(u, AllRoles)
         fail(code, detail) ==
           /\ response' = Response("logout", code, detail, NoPdf, NoOrders)
           /\ UNCHANGED <<sessions, revoked>>
     IN IF auth # 0 THEN fail(auth, AuthDetail(auth))
        ELSE IF ~CanWrite(w) THEN fail(500, "locked")
        ELSE /\ sessions' = DeleteSession(sessions, token)
             /\ revoked' = revoked \cup {token}
             /\ response' = Response("logout", 200, "logged out", NoPdf, NoOrders)
  /\ UNCHANGED <<daily_orders, return_status, txn, pc, req, now,
                 latest, lastRole, delivered, ledger, MAINTENANCE_MODE, issued, users>>
  /\ fetches' = 0

\* POST /api/admin/toggle_maintenance
toggle_maintenance(w, u) ==
  /\ pc[w] = "idle"
  /\ LET auth == require_auth(u, {"admin"})
     IN IF auth # 0
        THEN /\ response' = Response("toggle_maintenance", auth, AuthDetail(auth),
                                     NoPdf, NoOrders)
             /\ UNCHANGED MAINTENANCE_MODE
        ELSE /\ MAINTENANCE_MODE' = ~MAINTENANCE_MODE
             /\ response' = Response("toggle_maintenance", 200, "success", NoPdf, NoOrders)
  /\ UNCHANGED <<daily_orders, return_status, txn, pc, req, now,
                 latest, lastRole, delivered, ledger, sessions, issued, revoked, users>>
  /\ fetches' = 0

\* x.strip() of a string between the commas of the assigned_stores form
\* field (" C1", "C2", "" in the requests below).
Strip(x) == IF x = " C1" THEN "C1" ELSE x

\* [x.strip() for x in stores_str.split(",") if x.strip()], as the set of its
\* elements.
ParseStores(pieces) ==
  {Strip(pieces[i]) : i \in 1..Len(pieces)} \ {""}

\* POST /api/admin/update_user; a form field that is missing or empty is
\* NULL, stores is the assigned_stores field split at its commas.  The API
\* token field only feeds fetch_yandex_orders, whose outcome is an input of
\* the handlers that call it.
admin_update_user(w, u, username, password, role, stores) ==
  /\ pc[w] = "idle"
  /\ LET auth == require_auth(u, {"admin"})
         fail(code, detail) ==
           /\ response' = Response("admin_update_user", code, detail, NoPdf, NoOrders)
           /\ UNCHANGED users
         hash == IF password # NULL THEN sha256_hex(password)
                 ELSE users[username].password_hash
         rec == IF role = NULL
                THEN [users[username] EXCEPT !.password_hash = hash]
                ELSE [role |-> role,
                      assigned_stores |-> IF role = "seller" THEN ParseStores(stores)
                                          ELSE {},
                      password_hash |-> hash]
     IN IF auth # 0 THEN fail(auth, AuthDetail(auth))
        ELSE IF username = NULL THEN fail(400, "required")
        ELSE IF username \notin Users THEN fail(404, "not found")
        ELSE /\ users' = [users EXCEPT ![username] = rec]
             /\ response' = Response("admin_update_user", 200, "updated", NoPdf, NoOrders)
  /\ UNCHANGED <<daily_orders, return_status, txn, pc, req, now,
                 latest, lastRole, delivered, ledger, gate>>
  /\ fetches' = 0

\* The routes as a client calls them, with the token of its Authorization
\* header.
api_login(w, token, username, password, newtoken) ==
  OpenCall(w, token, "login", <<"api", "login">>, login(w, username, password, newtoken))

api_public_url(w, token) ==
  OpenCall(w, token, "get_public_url", <<"api", "public_url">>, get_public_url(w))

api_logout(w, token) ==
  ApiCall(w, token, "logout", <<"api", "logout">>,
          logout(w, get_user_from_token(token).user, token))

api_toggle_maintenance(w, token) ==
  ApiCall(w, token, "toggle_maintenance", <<"api", "admin", "toggle_maintenance">>,
          toggle_maintenance(w, get_user_from_token(token).user))

api_admin_update_user(w, token, username, password, role, stores) ==
  ApiCall(w, token, "admin_update_user", <<"api", "admin", "update_user">>,
          admin_update_user(w, get_user_from_token(token).user, username, password,
                            role, stores))

api_get_daily_orders(w, token, camp, live) ==
  ApiCall(w, token, "get_daily_orders", <<"api", "daily_orders", camp>>,
          get_daily_orders(w, get_user_from_token(token).user, camp, live))

api_save_daily_decision(w, token, order, camp, decision, alt) ==
  ApiCall(w, token, "save_daily_decision", <<"api", "save_daily_decision">>,
          save_daily_decision(w, get_user_from_token(token).user, order, camp, decision, alt))

api_supplier_accept_return(w, token, order, camp) ==
  ApiCall(w, token, "supplier_accept_return", <<"api", "supplier", "accept_return">>,
          supplier_accept_return(w, get_user_from_token(token).user, order, camp))

api_save_decisions(w, token, items, temp_save) ==
  ApiCall(w, token, "save_decisions", <<"api", "save">>,
          save_decisions(w, get_user_from_token(token).user, items, temp_save))

----------------------------------------------------------------------------
(* Specifications *)

\* The requests the model sends.  NULL stands for a missing credential or a
\* missing (falsy) JSON field.
DailyKeys == {<<"O1", "C1">>, <<"O2", "C1">>, <<"O1", "C2">>}
ReturnKeys == {<<"O1", "C1">>, <<"O2", "C1">>}

DailyRequests ==
  {[user |-> "seller1", order |-> k[1], camp |-> k[2], decision |-> d, alt |-> ""] :
      k \in DailyKeys, d \in {"yes", "no", "alternative"}}
  \cup
  {[user |-> "supplier1", order |-> k[1], camp |-> k[2], decision |-> d,
    alt |-> IF d = "alternative" THEN "ALT" ELSE ""] :
      k \in DailyKeys, d \in {"yes", "no", "alternative"}}
  \cup
  {[user |-> u, order |-> "O1", camp |-> "C1", decision |-> "yes", alt |-> ""] :
      u \in {"admin", NULL}}
  \cup
  {[user |-> u, order |-> k[1], camp |-> k[2], decision |-> k[3], alt |-> ""] :
      u \in {"seller1", "supplier1"},
      k \in {<<NULL, "C1", "yes">>, <<"O1", NULL, "yes">>, <<"O1", "C1", NULL>>}}

DailyActors == {"seller1", "supplier1", "admin", NULL}
ReturnActors == {"seller1", "supplier1", "supplier2", NULL}
ReturnKeyInputs == ReturnKeys \cup {<<NULL, "C1">>}
LiveInputs == {[ok |-> FALSE, orders |-> {}]} \cup
              {[ok |-> TRUE, orders |-> S] : S \in {{}, Orders}}

\* The return workflow is explored one request at a time.
ReturnWorkers == {"w1"}

DailyNext ==
  \/ \E w \in Workers, r \in DailyRequests :
       save_daily_decision(w, r.user, r.order, r.camp, r.decision, r.alt)
  \/ \E w \in Workers : save_daily_decision_commit(w)
  \/ \E w \in Workers, u \in DailyActors, c \in Campaigns, live \in LiveInputs :
       get_daily_orders(w, u, c, live)

ReturnNext ==
  \/ Tick
  \/ \E w \in ReturnWorkers, u \in ReturnActors, k \in ReturnKeyInputs :
       supplier_accept_return(w, u, k[1], k[2])
  \/ \E w \in ReturnWorkers : supplier_accept_return_commit(w)
  \/ \E w \in ReturnWorkers, u \in ReturnActors, k \in ReturnKeyInputs :
       supplier_deliver_return(w, u, k[1], k[2])
  \/ \E w \in ReturnWorkers : supplier_deliver_return_pdf(w)
  \/ \E w \in ReturnWorkers : supplier_deliver_return_commit(w)
  \/ \E w \in ReturnWorkers, u \in ReturnActors, k \in ReturnKeyInputs :
       seller_accept_return(w, u, k[1], k[2])
  \/ \E w \in ReturnWorkers : seller_accept_return_pdf(w)
  \/ \E w \in ReturnWorkers : seller_accept_return_commit(w)

\* The line items and the save_decisions requests the model sends.
Item(order, camp, decision) == [order_id |-> order, campaign_id |-> camp, decision |-> decision]

SaveRequests ==
  {[user |-> "seller1", items |-> <<Item("O1", "C1", "yes")>>, temp_save |-> FALSE],
   [user |-> "seller1", items |-> <<Item("O1", "C1", "yes"), Item("O2", "C1", "no")>>,
    temp_save |-> FALSE],
   [user |-> "seller1", items |-> <<Item("O1", "C1", "no")>>, temp_save |-> TRUE],
   [user |-> "seller1", items |-> <<Item("O1", "C1", "yes"), Item("O2", NULL, "no")>>,
    temp_save |-> FALSE],
   [user |-> "seller1", items |-> <<Item("O1", "C1", NULL)>>, temp_save |-> FALSE],
   [user |-> "supplier1", items |-> <<Item("O1", "C1", "no")>>, temp_save |-> FALSE],
   [user |-> "supplier1", items |-> <<>>, temp_save |-> FALSE],
   [user |-> "supplier1", items |-> <<Item("O2", "C1", "alternative"), Item("O1", "C1", "yes")>>,
    temp_save |-> TRUE],
   [user |-> "admin", items |-> <<Item("O1", "C1", "yes")>>, temp_save |-> FALSE],
   [user |-> NULL, items |-> <<Item("O1", "C1", "yes")>>, temp_save |-> FALSE]}

SaveNext ==
  \/ \E w \in Workers, r \in SaveRequests : save_decisions(w, r.user, r.items, r.temp_save)
  \/ \E w \in Workers : save_decisions_commit(w)
  \/ \E w \in Workers : save_decisions_pdf(w)
  \/ \E w \in Workers : teardown_request(w)

\* The ledger and the old-orders query, one request at a time, with time
\* running long enough for a row to grow old.
OldSaveRequests ==
  {r \in SaveRequests :
     /\ r.user \in {"seller1", "supplier1"}
     /\ Len(r.items) = 1
     /\ r.items[1].decision # NULL}

OldNext ==
  \/ TimePasses(MaxTime + OldDays)
  \/ \E w \in ReturnWorkers, r \in OldSaveRequests :
       save_decisions(w, r.user, r.items, r.temp_save)
  \/ \E w \in ReturnWorkers : save_decisions_commit(w)
  \/ \E w \in ReturnWorkers : save_decisions_pdf(w)
  \/ \E w \in ReturnWorkers, u \in {"seller1", "supplier1", "admin", NULL} : get_old_orders(w, u)

\* The daily order workflow alone (it shares no table with the return
\* workflow); none of its reads depends on a timestamp, so time stands still.
SpecDaily == Init /\ [][DailyNext]_vars

\* The return workflow alone.
SpecReturn == Init /\ [][ReturnNext]_vars

\* The decision ledger alone, two requests at a time.
SpecSave == Init /\ [][SaveNext]_vars

\* The handlers that call the renderer, one request at a time: the return
\* workflow of one key and the final saves.
RenderActors == {"supplier1", "seller1"}
RenderKey == <<"O1", "C1">>
FinalSaveRequests ==
  {r \in SaveRequests :
     /\ r.user \in RenderActors
     /\ ~r.temp_save
     /\ r.items # <<>>
     /\ \A i \in 1..Len(r.items) : r.items[i].campaign_id # NULL /\ r.items[i].decision # NULL}

RenderNext ==
  \/ \E w \in ReturnWorkers, u \in RenderActors :
       supplier_accept_return(w, u, RenderKey[1], RenderKey[2])
  \/ \E w \in ReturnWorkers : supplier_accept_return_commit(w)
  \/ \E w \in ReturnWorkers, u \in RenderActors :
       supplier_deliver_return(w, u, RenderKey[1], RenderKey[2])
  \/ \E w \in ReturnWorkers : supplier_deliver_return_pdf(w)
  \/ \E w \in ReturnWorkers : supplier_deliver_return_commit(w)
  \/ \E w \in ReturnWorkers, u \in RenderActors :
       seller_accept_return(w, u, RenderKey[1], RenderKey[2])
  \/ \E w \in ReturnWorkers : seller_accept_return_pdf(w)
  \/ \E w \in ReturnWorkers : seller_accept_return_commit(w)
  \/ \E w \in ReturnWorkers, r \in FinalSaveRequests :
       save_decisions(w, r.user, r.items, r.temp_save)
  \/ \E w \in ReturnWorkers : save_decisions_commit(w)
  \/ \E w \in ReturnWorkers : save_decisions_pdf(w)

SpecRender == Init /\ [][RenderNext]_vars

SpecOld == Init /\ [][OldNext]_vars

\* Sessions over time: logins, logouts and authenticated reads, with time
\* running long enough for a session to expire.
SessionTokens == Tokens \cup {ForgedToken, NULL}
SessionLive == [ok |-> TRUE, orders |-> {"O1"}]

SessionNext ==
  \/ TimePasses(MaxTime + SessionTTL)
  \/ \E w \in ReturnWorkers, u \in {"seller1", "supplier1"} \cup {"nobody", NULL},
        p \in {Passwords["seller1"], Passwords["supplier1"]}, t \in Tokens :
       api_login(w, NULL, u, p, t)
  \/ \E w \in ReturnWorkers, t \in SessionTokens : api_logout(w, t)
  \/ \E w \in ReturnWorkers, t \in SessionTokens :
       api_get_daily_orders(w, t, "C1", SessionLive)

SpecSession == Init /\ [][SessionNext]_vars

\* Two suppliers accepting, re-accepting and delivering returns of two orders
\* and the seller taking them back, while time passes.
AcceptSuppliers == {"supplier1", "supplier2"}

AcceptNext ==
  \/ Tick
  \/ \E w \in ReturnWorkers, u \in AcceptSuppliers, k \in ReturnKeys :
       supplier_accept_return(w, u, k[1], k[2])
  \/ \E w \in ReturnWorkers : supplier_accept_return_commit(w)
  \/ \E w \in ReturnWorkers, u \in AcceptSuppliers, k \in ReturnKeys :
       supplier_deliver_return(w, u, k[1], k[2])
  \/ \E w \in ReturnWorkers : supplier_deliver_return_pdf(w)
  \/ \E w \in ReturnWorkers : supplier_deliver_return_commit(w)
  \/ \E w \in ReturnWorkers, k \in ReturnKeys : seller_accept_return(w, "seller1", k[1], k[2])
  \/ \E w \in ReturnWorkers : seller_accept_return_pdf(w)
  \/ \E w \in ReturnWorkers : seller_accept_return_commit(w)

SpecAccept == Init /\ [][AcceptNext]_vars

\* A supplier accepting and delivering returns of three orders in two
\* campaigns while callers read the seller's list of returned orders; the
\* enrichment fails for every order, for none, or for one of them.
ReturnedKeys == {<<"O1", "C1">>, <<"O2", "C1">>, <<"O1", "C2">>}
ReturnedActors == {"seller1", "supplier1", NULL}
ReturnedCampaigns == {"C1", "C2", NULL}
EnrichInputs ==
  {[o \in {"O1", "O2"} |-> k] : k \in EnrichOutcomes}
    \cup {[o \in {"O1", "O2"} |-> IF o = "O1" THEN "ok" ELSE "raised"]}

ReturnedNext ==
  \/ \E w \in ReturnWorkers, k \in ReturnedKeys :
       supplier_accept_return(w, "supplier1", k[1], k[2])
  \/ \E w \in ReturnWorkers : supplier_accept_return_commit(w)
  \/ \E w \in ReturnWorkers, k \in ReturnedKeys :
       supplier_deliver_return(w, "supplier1", k[1], k[2])
  \/ \E w \in ReturnWorkers : supplier_deliver_return_pdf(w)
  \/ \E w \in ReturnWorkers : supplier_deliver_return_commit(w)
  \/ \E w \in ReturnWorkers, u \in ReturnedActors, c \in ReturnedCampaigns,
        enrich \in EnrichInputs :
       get_seller_returned_orders(w, u, c, enrich)

SpecReturned == Init /\ [][ReturnedNext]_vars

\* The request pipeline in front of the workflow and ledger handlers, one
\* request at a time: each user logs in with a token of its own, the admin
\* toggles maintenance mode, clients call with a live, a forged or no token.
GateLogins == {<<"seller1", "t1">>, <<"supplier1", "t2">>, <<"admin", "t3">>}
GateTokens == Tokens \cup {ForgedToken, NULL}
GateCampaigns == {"C1", "public_url"}
GateDailyRequests ==
  {[order |-> "O1", camp |-> "C1", decision |-> "yes", alt |-> ""],
   [order |-> "O1", camp |-> "C1", decision |-> NULL, alt |-> ""]}
GateReturnKeys == {<<"O1", "C1">>, <<NULL, "C1">>}
GateReturnTokens == {"t1", "t2", NULL}
GateSaveItems == {<<Item("O1", "C1", "yes")>>, <<>>}

GateNext ==
  \/ \E w \in ReturnWorkers, c \in GateLogins, t \in {"t3", NULL} :
       api_login(w, t, c[1], Passwords[c[1]], c[2])
  \/ \E w \in ReturnWorkers, t \in GateTokens : api_toggle_maintenance(w, t)
  \/ \E w \in ReturnWorkers : api_public_url(w, NULL)
  \/ \E w \in ReturnWorkers, t \in GateReturnTokens, c \in GateCampaigns :
       api_get_daily_orders(w, t, c, SessionLive)
  \/ \E w \in ReturnWorkers, t \in {"t1", "t3", ForgedToken, NULL}, r \in GateDailyRequests :
       api_save_daily_decision(w, t, r.order, r.camp, r.decision, r.alt)
  \/ \E w \in ReturnWorkers : save_daily_decision_commit(w)
  \/ \E w \in ReturnWorkers, t \in GateReturnTokens, k \in GateReturnKeys :
       api_supplier_accept_return(w, t, k[1], k[2])
  \/ \E w \in ReturnWorkers : supplier_accept_return_commit(w)
  \/ \E w \in ReturnWorkers, t \in {"t1", "t3", NULL}, items \in GateSaveItems :
       api_save_decisions(w, t, items, FALSE)
  \/ \E w \in ReturnWorkers : save_decisions_commit(w)
  \/ \E w \in ReturnWorkers : save_decisions_pdf(w)

SpecGate == Init /\ [][GateNext]_vars

\* The user table under administration: the seller logs in once and the admin
\* twice, they log out, the admin toggles maintenance mode and rewrites the
\* seller's record, the holders of sessions read the daily orders, and time
\* runs long enough for a session to expire.
AdminLogins == {<<"seller1", "t1">>, <<"admin", "t2">>, <<"admin", "t3">>}
AdminTokens == Tokens \cup {NULL}
AdminCampaigns == {"C1", "C2", "public_url"}
AdminRoles == {NULL, "seller", "admin"}
AdminStores == {<<" C1">>, <<"C2", "">>}

AdminNext ==
  \/ TimePasses(MaxTime + SessionTTL)
  \/ \E w \in ReturnWorkers, c \in AdminLogins :
       api_login(w, NULL, c[1], Passwords[c[1]], c[2])
  \/ \E w \in ReturnWorkers, t \in AdminTokens : api_logout(w, t)
  \/ \E w \in ReturnWorkers, t \in AdminTokens : api_toggle_maintenance(w, t)
  \/ \E w \in ReturnWorkers, t \in AdminTokens, u \in {"seller1", "nobody", NULL},
        role \in AdminRoles, stores \in AdminStores :
       api_admin_update_user(w, t, u, NULL, role, stores)
  \/ \E w \in ReturnWorkers, t \in AdminTokens, c \in AdminCampaigns :
       api_get_daily_orders(w, t, c, SessionLive)

SpecAdmin == Init /\ [][AdminNext]_vars

\* Sessions that outlive a change of the user table: the seller and the admin
\* log in once each, the admin rewrites the seller's record, both call gated
\* routes, and time runs for the life of one session.
UsersTokens == {"t1", "t2"}

UsersNext ==
  \/ TimePasses(MaxTime)
  \/ \E w \in ReturnWorkers, c \in {<<"seller1", "t1">>, <<"admin", "t2">>} :
       api_login(w, NULL, c[1], Passwords[c[1]], c[2])
  \/ \E w \in ReturnWorkers, t \in UsersTokens : api_toggle_maintenance(w, t)
  \/ \E w \in ReturnWorkers, t \in UsersTokens, u \in {"seller1", "nobody", NULL},
        p \in {NULL, "new password"}, role \in AdminRoles, stores \in AdminStores :
       api_admin_update_user(w, t, u, p, role, stores)
  \/ \E w \in ReturnWorkers, t \in UsersTokens, c \in AdminCampaigns :
       api_get_daily_orders(w, t, c, SessionLive)

SpecUsers == Init /\ [][UsersNext]_vars

\* The supplier's queue next to everything that follows a seller's temporary
\* yes: the seller's final save of the same order, the supplier's decision,
\* a return of the order, one request at a time.
QueueSaveRequests ==
  {[user |-> "seller1", items |-> <<Item("O1", "C1", "yes")>>, temp_save |-> TRUE],
   [user |-> "seller1", items |-> <<Item("O1", "C1", "yes")>>, temp_save |-> FALSE],
   [user |-> "seller1", items |-> <<Item("O1", "C1", "no")>>, temp_save |-> TRUE],
   [user |-> "supplier1", items |-> <<Item("O1", "C1", "no")>>, temp_save |-> FALSE],
   [user |-> "supplier1", items |-> <<Item("O1", "C1", "yes")>>, temp_save |-> TRUE]}

QueueNext ==
  \/ \E w \in ReturnWorkers, r \in QueueSaveRequests :
       save_decisions(w, r.user, r.items, r.temp_save)
  \/ \E w \in ReturnWorkers : save_decisions_commit(w)
  \/ \E w \in ReturnWorkers : save_decisions_pdf(w)
  \/ \E w \in ReturnWorkers : supplier_accept_return(w, "supplier1", "O1", "C1")
  \/ \E w \in ReturnWorkers : supplier_accept_return_commit(w)
  \/ \E w \in ReturnWorkers, u \in {"supplier1", "seller1", NULL} : supplier_get_orders(w, u)

SpecQueue == Init /\ [][QueueNext]_vars

\* The daily submissions alone, one request at a time.
RowsNext ==
  \/ \E w \in ReturnWorkers, r \in DailyRequests :
       save_daily_decision(w, r.user, r.order, r.camp, r.decision, r.alt)
  \/ \E w \in ReturnWorkers : save_daily_decision_commit(w)

SpecRows == Init /\ [][RowsNext]_vars

\* The read paths that take a campaign, next to the writes whose rows they
\* read: daily decisions on two orders of C1, a delivered return of an order
\* of C2, a supplier's final save.
ReadActors == {"seller1", "supplier1", "admin"}
ReadDailyRequests ==
  {[user |-> "seller1", order |-> "O1", camp |-> "C1", decision |-> "yes", alt |-> ""],
   [user |-> "supplier1", order |-> "O1", camp |-> "C1", decision |-> "no", alt |-> ""]}
ReadReturnKey == <<"O1", "C2">>
ReadEnrich == [o \in {"O1", "O2"} |-> "none"]

ReadNext ==
  \/ \E w \in ReturnWorkers, r \in ReadDailyRequests :
       save_daily_decision(w, r.user, r.order, r.camp, r.decision, r.alt)
  \/ \E w \in ReturnWorkers : save_daily_decision_commit(w)
  \/ \E w \in ReturnWorkers :
       supplier_accept_return(w, "supplier1", ReadReturnKey[1], ReadReturnKey[2])
  \/ \E w \in ReturnWorkers : supplier_accept_return_commit(w)
  \/ \E w \in ReturnWorkers :
       supplier_deliver_return(w, "supplier1", ReadReturnKey[1], ReadReturnKey[2])
  \/ \E w \in ReturnWorkers : supplier_deliver_return_pdf(w)
  \/ \E w \in ReturnWorkers : supplier_deliver_return_commit(w)
  \/ \E w \in ReturnWorkers : save_decisions(w, "supplier1", <<Item("O1", "C1", "yes")>>, FALSE)
  \/ \E w \in ReturnWorkers : save_decisions_commit(w)
  \/ \E w \in ReturnWorkers : save_decisions_pdf(w)
  \/ \E w \in ReturnWorkers, u \in ReadActors, c \in Campaigns, live \in LiveInputs :
       get_daily_orders(w, u, c, live)
  \/ \E w \in ReturnWorkers, u \in ReadActors, c \in Campaigns, live \in LiveInputs :
       get_orders(w, u, c, live)
  \/ \E w \in ReturnWorkers, u \in ReadActors, c \in Campaigns, live \in LiveInputs :
       get_today_orders(w, u, c, live)
  \/ \E w \in ReturnWorkers, u \in ReadActors, c \in Campaigns, live \in LiveInputs :
       get_canceled_orders(w, u, c, live)
  \/ \E w \in ReturnWorkers, u \in ReadActors, c \in Campaigns :
       get_seller_returned_orders(w, u, c, ReadEnrich)

SpecRead == Init /\ [][ReadNext]_vars

\* Every request the model sends.
Next ==
  \/ DailyNext
  \/ ReturnNext
  \/ SaveNext
  \/ OldNext
  \/ SessionNext
  \/ AcceptNext
  \/ ReturnedNext
  \/ GateNext
  \/ ReadNext
  \/ RowsNext
  \/ AdminNext
  \/ UsersNext
  \/ QueueNext

Spec == Init /\ [][Next]_vars

----------------------------------------------------------------------------
(* Properties of the daily order workflow (checked under SpecDaily) *)

\* The indices of the stored daily rows of a key.
DailyRowsOf(t, k) == {i \in 1..Len(t) : t[i].order_id = k[1] /\ t[i].campaign_id = k[2]}

\* The status a role's write stores.
StatusOf(role) == IF role = "seller" THEN "seller_accepted" ELSE "supplier_accepted"

\* C1: once a seller and a supplier have both submitted a decision for a key
\* (in either order), a stored row of the key carries both submitted
\* decisions and the status of the later write.
C1_BothDecisionsMerged ==
  \A k \in Keys :
    (latest[<<"seller", k[1], k[2]>>] # NULL /\ latest[<<"supplier", k[1], k[2]>>] # NULL)
    => \E i \in DailyRowsOf(daily_orders, k) :
         /\ daily_orders[i].seller_decision = latest[<<"seller", k[1], k[2]>>]
         /\ daily_orders[i].supplier_decision = latest[<<"supplier", k[1], k[2]>>]
         /\ daily_orders[i].status = StatusOf(lastRole[k])

\* What a handler step of role `role` on key k leaves of the other role's
\* decision: every stored row of k keeps it, and so does the entry a read of
\* k returns.
OtherDecisionKept(role, k) ==
  LET other == IF role = "seller" THEN "supplier_decision" ELSE "seller_decision"
      before == FetchOne(daily_orders, k[1], k[2])
      after == FetchOne(daily_orders', k[1], k[2])
  IN /\ \A i \in DailyRowsOf(daily_orders, k) :
          daily_orders[i][other] # NULL
          => \E j \in DailyRowsOf(daily_orders', k) :
               daily_orders'[j][other] = daily_orders[i][other]
     /\ before # <<>> => (after # <<>> /\ after[1][other] = before[1][other])

\* C2: whichever way a seller's and a supplier's save_daily_decision on one
\* key interleave, the commit of either never overwrites or clears the
\* decision the other role has stored for the key.
C2_NoCrossRoleClobber ==
  [][\A w \in Workers :
       save_daily_decision_commit(w)
       => OtherDecisionKept(users[req[w].user].role, <<req[w].order, req[w].camp>>)]_vars

\* C2 witness: a seller's and a supplier's submission on one key have both
\* committed, and each role's decision is still stored for the key.
C2_Witness ==
  \E k \in Keys : \E i, j \in DailyRowsOf(daily_orders, k) :
    /\ daily_orders[i].seller_decision # NULL
    /\ daily_orders[j].supplier_decision # NULL
    /\ latest[<<"seller", k[1], k[2]>>] # NULL
    /\ latest[<<"supplier", k[1], k[2]>>] # NULL

\* C3: the daily table never holds two rows of one (order_id, campaign_id).
C3_OneDailyRowPerKey ==
  \A k \in Keys : Cardinality(DailyRowsOf(daily_orders, k)) <= 1

\* C4: when only one role has submitted decisions for a key, get_daily_orders
\* reports for that order the decision that role submitted last.
C4_LatestWriteRead ==
  [][\A w \in Workers, u \in DailyActors, c \in Campaigns, live \in LiveInputs :
       (get_daily_orders(w, u, c, live) /\ response'.code = 200)
       => \A o \in live.orders :
            /\ latest[<<"supplier", o, c>>] = NULL
               => response'.orders[o].seller_decision = latest[<<"seller", o, c>>]
            /\ latest[<<"seller", o, c>>] = NULL
               => response'.orders[o].supplier_decision = latest[<<"supplier", o, c>>]]_vars

\* C5: a key for which only sellers have submitted has no supplier decision
\* and no supplier username in any stored row, nor in what a read reports;
\* likewise with the roles exchanged.
C5_OneRoleOnly ==
  \A k \in Keys :
    /\ latest[<<"supplier", k[1], k[2]>>] = NULL
       => /\ \A i \in DailyRowsOf(daily_orders, k) :
               /\ daily_orders[i].supplier_decision = NULL
               /\ daily_orders[i].supplier_username = NULL
          /\ DailyOverlay(daily_orders, k[1], k[2]).supplier_decision = NULL
    /\ latest[<<"seller", k[1], k[2]>>] = NULL
       => /\ \A i \in DailyRowsOf(daily_orders, k) :
               /\ daily_orders[i].seller_decision = NULL
               /\ daily_orders[i].seller_username = NULL
          /\ DailyOverlay(daily_orders, k[1], k[2]).seller_decision = NULL

\* C5 witness: two seller submissions are stored for a key for which no
\* supplier has submitted.
C5_Witness ==
  \E k \in Keys :
    /\ latest[<<"supplier", k[1], k[2]>>] = NULL
    /\ Cardinality(DailyRowsOf(daily_orders, k)) = 2
    /\ \A i \in DailyRowsOf(daily_orders, k) : daily_orders[i].seller_decision # NULL

\* C6: the seller decision stored for a key is always yes or no (a seller's
\* `alternative` is refused and stores nothing).
C6_SellerDecisionYesNo ==
  \A i \in 1..Len(daily_orders) :
    daily_orders[i].seller_decision \in {NULL, "yes", "no"}

----------------------------------------------------------------------------
(* Properties of the return workflow (checked under SpecReturn) *)

\* The stored Return Status Entry of a key: <<>> or <<row>>.
ReturnEntry(t, k) == FetchOne(t, k[1], k[2])

\* A request that failed: an error response, no write, no open transaction,
\* the worker back at rest.
ReturnRequestFailed(w, op) ==
  /\ response'.op = op
  /\ response'.code # 200
  /\ return_status' = return_status
  /\ txn' = txn
  /\ pc'[w] = "idle"

\* C7: a seller_accept_return on a key on which no supplier_deliver_return has
\* succeeded fails, and creates or changes no Return Status Entry, whether
\* the key has no entry or an entry the supplier has only accepted.
C7_SellerAcceptNeedsDelivery ==
  [][\A w \in ReturnWorkers, u \in ReturnActors, k \in ReturnKeys :
       (seller_accept_return(w, u, k[1], k[2]) /\ k \notin delivered)
       => ReturnRequestFailed(w, "seller_accept_return")]_vars

\* C7 witness: a seller_accept_return was answered "not found / not yet
\* delivered" while every key has an entry the supplier has accepted and none
\* has ever been delivered.
C7_Witness ==
  /\ response.op = "seller_accept_return"
  /\ response.detail = "not_found"
  /\ delivered = {}
  /\ \A k \in ReturnKeys :
       /\ ReturnEntry(return_status, k) # <<>>
       /\ ReturnEntry(return_status, k)[1].supplier_status = "accepted"

\* C8: a seller_accept_return succeeds at most once per key: the one that
\* commits finds the entry's seller_status still pending.
C8_SellerAcceptOnce ==
  [][\A w \in ReturnWorkers :
       seller_accept_return_commit(w)
       => LET e == ReturnEntry(return_status, <<req[w].order, req[w].camp>>)
          IN e # <<>> /\ e[1].seller_status = "pending"]_vars

\* The order of the supplier-side and seller-side states.
SupplierRank(st) == CASE st = "pending" -> 0 [] st = "accepted" -> 1 [] st = "delivered" -> 2
SellerRank(st) == CASE st = "pending" -> 0 [] st = "accepted" -> 1

\* C9: no step moves a status field of a stored Return Status Entry
\* backwards: supplier_status never leaves delivered and never falls back to
\* pending, seller_status never leaves accepted.
C9_StatusForwardOnly ==
  [][\A k \in ReturnKeys :
       LET e == ReturnEntry(return_status, k)
           f == ReturnEntry(return_status', k)
       IN e # <<>>
          => /\ f # <<>>
             /\ SupplierRank(f[1].supplier_status) >= SupplierRank(e[1].supplier_status)
             /\ SellerRank(f[1].seller_status) >= SellerRank(e[1].seller_status)]_vars

\* C10: a supplier_deliver_return on a key without an entry, or by a supplier
\* who is not the supplier_username of the key's entry, fails and leaves the
\* Return Status table as it was.
C10_DeliverNeedsOwnAccept ==
  [][\A w \in ReturnWorkers, u \in ReturnActors, k \in ReturnKeys :
       (/\ supplier_deliver_return(w, u, k[1], k[2])
        /\ LET e == ReturnEntry(return_status, k)
           IN e = <<>> \/ e[1].supplier_username # u)
       => ReturnRequestFailed(w, "supplier_deliver_return")]_vars

\* C10 witness: a supplier_deliver_return was answered "not found / not
\* accepted by you" although every key has an accepted entry, one of them
\* owned by each supplier: the caller was not the entry's owner.
C10_Witness ==
  /\ response.op = "supplier_deliver_return"
  /\ response.detail = "not_found"
  /\ \A k \in ReturnKeys :
       /\ ReturnEntry(return_status, k) # <<>>
       /\ ReturnEntry(return_status, k)[1].supplier_status = "accepted"
  /\ {ReturnEntry(return_status, k)[1].supplier_username : k \in ReturnKeys}
       = {"supplier1", "supplier2"}

\* C11: a supplier_deliver_return succeeds only on an entry whose
\* supplier_status is accepted: the one that commits did not find the entry
\* already delivered.
C11_DeliverOnlyFromAccepted ==
  [][\A w \in ReturnWorkers :
       supplier_deliver_return_commit(w)
       => LET e == ReturnEntry(return_status, <<req[w].order, req[w].camp>>)
          IN e # <<>> /\ e[1].supplier_status = "accepted"]_vars

\* C12: along supplier accept_return, supplier deliver_return, seller
\* accept_return on one key the entry is created accepted with
\* supplier_accepted_at, becomes delivered with supplier_delivered_at while
\* keeping supplier_accepted_at, a seller's accept_return on the delivered
\* entry is not refused, and the entry it commits is delivered, carries both
\* supplier timestamps and has seller_status accepted.
C12_ReturnRun ==
  [][\A w \in ReturnWorkers :
       LET k == <<req[w].order, req[w].camp>>
           e == ReturnEntry(return_status, k)
           f == ReturnEntry(return_status', k)
       IN /\ supplier_accept_return_commit(w)
             => /\ f # <<>>
                /\ f[1].supplier_status = "accepted"
                /\ f[1].supplier_accepted_at # NoTime
          /\ supplier_deliver_return_commit(w)
             => /\ e # <<>> /\ f # <<>>
                /\ e[1].supplier_status \in {"accepted", "delivered"}
                /\ f[1].supplier_status = "delivered"
                /\ f[1].supplier_accepted_at = e[1].supplier_accepted_at
                /\ f[1].supplier_accepted_at # NoTime
                /\ f[1].supplier_delivered_at # NoTime
          /\ seller_accept_return_commit(w)
             => /\ f # <<>>
                /\ f[1].supplier_status = "delivered"
                /\ f[1].supplier_accepted_at # NoTime
                /\ f[1].supplier_delivered_at # NoTime
                /\ f[1].seller_status = "accepted"
          /\ \A j \in ReturnKeys :
               LET d == ReturnEntry(return_status, j)
               IN (/\ seller_accept_return(w, "seller1", j[1], j[2])
                   /\ d # <<>> /\ d[1].supplier_status = "delivered")
                  => pc'[w] = "render_seller"]_vars

\* C12 witness: a seller_accept_return has just succeeded on an entry that
\* was accepted at one time and delivered at a later one.
C12_Witness ==
  /\ response.op = "seller_accept_return"
  /\ response.code = 200
  /\ \E k \in ReturnKeys :
       LET e == ReturnEntry(return_status, k)
       IN /\ e # <<>>
          /\ e[1].supplier_status = "delivered"
          /\ e[1].seller_status = "accepted"
          /\ e[1].supplier_accepted_at # NoTime
          /\ e[1].supplier_delivered_at > e[1].supplier_accepted_at
          /\ e[1].seller_accepted_at # NoTime

\* C13: every successful supplier_deliver_return and seller_accept_return
\* answers with the identifier of a manifest rendered for the entry.
C13_SuccessReturnsManifest ==
  (/\ response.op \in {"supplier_deliver_return", "seller_accept_return"}
   /\ response.code = 200)
  => response.pdf # NoPdf

----------------------------------------------------------------------------
(* Properties of the decision ledger (checked under SpecSave) *)

\* t is an initial part of t2.
IsPrefix(t, t2) == Len(t) <= Len(t2) /\ SubSeq(t2, 1, Len(t)) = t

\* C14: a save_decisions call that succeeds with N line items adds exactly N
\* rows to decisions (all by the caller) and N rows to accepted_returned,
\* raises the caller's processed_orders count by N and leaves every other
\* user's count as it was.
C14_SaveAddsNRows ==
  [][\A w \in Workers :
       save_decisions_commit(w)
       => LET n == Len(call[w].items)
              u == call[w].user
          IN /\ IsPrefix(decisions, decisions')
             /\ Len(decisions') = Len(decisions) + n
             /\ \A i \in (Len(decisions) + 1)..Len(decisions') : decisions'[i].username = u
             /\ IsPrefix(accepted_returned, accepted_returned')
             /\ Len(accepted_returned') = Len(accepted_returned) + n
             /\ CounterOf(processed_orders', u) = CounterOf(processed_orders, u) + n
             /\ \A v \in Users \ {u} :
                  CounterOf(processed_orders', v) = CounterOf(processed_orders, v)]_vars

\* C14 witness: a two-item save has just been answered with both of its
\* manifests while another user's counter stands at a value of its own.
C14_Witness ==
  /\ response.op = "save_decisions"
  /\ response.code = 200
  /\ Len(response.pdf) = 2
  /\ CounterOf(processed_orders, "seller1") = 2
  /\ CounterOf(processed_orders, "supplier1") = 1
  /\ Len(decisions) = 3
  /\ Len(accepted_returned) = 3

\* C15: a save_decisions call is all-or-nothing: the step that ends its
\* transaction (the commit of a call that ran through, the teardown of one
\* that raised) publishes either nothing, or all N Decision Records, all N
\* Accepted/Returned Records and the counter increment of the call.
C15_SaveAllOrNothing ==
  [][\A w \in Workers :
       (save_decisions_commit(w) \/ teardown_request(w))
       => LET n == Len(call[w].items)
              u == call[w].user
          IN \/ UNCHANGED <<decisions, accepted_returned, processed_orders>>
             \/ /\ Len(decisions') = Len(decisions) + n
                /\ Len(accepted_returned') = Len(accepted_returned) + n
                /\ CounterOf(processed_orders', u) = CounterOf(processed_orders, u) + n]_vars

RECURSIVE SumSeq(_)
\* The sum of a sequence of numbers.
SumSeq(q) == IF q = <<>> THEN 0 ELSE Head(q) + SumSeq(Tail(q))

\* C16: whatever way save_decisions calls of the worker threads interleave,
\* every user's processed_orders count equals the sum of the line-item counts
\* of that user's calls that succeeded (the count starts at 0).
C16_NoLostCounterUpdate ==
  \A u \in Users : CounterOf(processed_orders, u) = SumSeq(saved[u])

\* C16 witness: two calls of one user are in flight on the two worker threads
\* at once, both have committed and neither has answered yet.
C16_Witness ==
  /\ \A w \in Workers : pc[w] = "render_save" /\ call[w].user = "seller1"
  /\ Len(saved["seller1"]) = 2
  /\ CounterOf(processed_orders, "seller1") >= 2

----------------------------------------------------------------------------
(* Properties of the handlers that render (checked under SpecRender) *)

\* The last n rows of decisions are the rows of the line items `items`
\* written by user u.
LedgerHolds(items, u) ==
  LET n == Len(items)
  IN /\ Len(decisions) >= n
     /\ \A i \in 1..n :
          LET row == decisions[Len(decisions) - n + i]
          IN /\ row.order_id = items[i].order_id
             /\ row.decision = items[i].decision
             /\ row.username = u

\* C17: a renderer failure neither unwinds nor blocks the write of its call.
\* In supplier_deliver_return and seller_accept_return a render step that
\* produced no manifest leaves the open transaction as it is and goes on to
\* the commit, and the commit publishes the transition and answers 200; in a
\* final save_decisions the rows are committed when rendering starts, the
\* render step changes no table and answers 200 with the manifests written
\* before the failure.
C17_RenderFailureKeepsWrite ==
  [][\A w \in ReturnWorkers :
       LET k == <<req[w].order, req[w].camp>>
           f == ReturnEntry(return_status', k)
       IN /\ ((supplier_deliver_return_pdf(w) \/ seller_accept_return_pdf(w))
                /\ req'[w].pdf = NoPdf)
             => /\ txn' = txn /\ txn.owner = w
                /\ pc'[w] \in {"commit_deliver", "commit_seller"}
          /\ supplier_deliver_return_commit(w)
             => /\ f # <<>> /\ f[1].supplier_status = "delivered"
                /\ response'.code = 200 /\ response'.pdf = req[w].pdf
          /\ seller_accept_return_commit(w)
             => /\ f # <<>> /\ f[1].seller_status = "accepted"
                /\ response'.code = 200 /\ response'.pdf = req[w].pdf
          /\ save_decisions_pdf(w)
             => /\ LedgerHolds(call[w].items, call[w].user)
                /\ txn.owner # w
                /\ UNCHANGED <<decisions, accepted_returned, processed_orders>>
                /\ response'.code = 200
                /\ response'.pdf \in RenderedFiles(SaveManifests(call[w].items, call[w].user))]_vars

\* C17 witness: a final save has just answered 200 without any manifest, its
\* rows are in the ledger, and the key's return entry went through a deliver
\* and a seller accept whose renders failed as well.
C17_Witness ==
  /\ response.op = "save_decisions"
  /\ response.code = 200
  /\ response.pdf = <<>>
  /\ Len(decisions) >= 1
  /\ \A i \in 1..Len(decisions) : decisions[i].main_save = 1
  /\ LET e == ReturnEntry(return_status, RenderKey)
     IN e # <<>> /\ e[1].supplier_status = "delivered" /\ e[1].seller_status = "accepted"

\* C18: while a handler that writes and renders (supplier_deliver_return,
\* seller_accept_return, save_decisions) is in its render step, its write is
\* committed: the worker holds no open transaction and no write lock.
C18_CommitBeforeRender ==
  \A w \in Workers :
    pc[w] \in {"render_deliver", "render_seller", "render_save"} => txn.owner # w

\* C19 (checked under SpecSave): decisions and accepted_returned are
\* append-only: every step leaves the rows already stored in place and
\* unchanged, new rows only come after them.
C19_LedgerAppendOnly ==
  [][/\ IsPrefix(decisions, decisions')
     /\ IsPrefix(accepted_returned, accepted_returned')]_vars

\* C19 witness: a seller and a supplier have each saved a decision for the
\* same order, and both Decision Records and both Accepted/Returned Records
\* are stored.
C19_Witness ==
  /\ saved["seller1"] # <<>>
  /\ saved["supplier1"] # <<>>
  /\ \E i, j \in 1..Len(decisions) :
       /\ i < j
       /\ decisions[i].order_id = decisions[j].order_id
       /\ decisions[i].username # decisions[j].username
  /\ \E i, j \in 1..Len(accepted_returned) :
       /\ i < j
       /\ accepted_returned[i].order_id = accepted_returned[j].order_id
       /\ accepted_returned[i].seller_username # accepted_returned[j].seller_username

\* C20 (checked under SpecDaily): seller access is scoped to the assigned
\* stores: no daily row written by a seller, committed or in an open
\* transaction, is of a campaign outside that seller's assigned_stores.
C20_SellerScopedToStores ==
  \A t \in {daily_orders, txn.daily} :
    \A i \in 1..Len(t) :
      t[i].seller_username # NULL
      => t[i].campaign_id \in users[t[i].seller_username].assigned_stores

----------------------------------------------------------------------------
(* Properties of the old-orders query (checked under SpecOld) *)

----------------------------------------------------------------------------
(* Properties of the session store (checked under SpecSession) *)

\* The session of the token exists and its expiry has passed.
TokenExpired(token) ==
  LET row == SessionOf(sessions, token)
  IN row # <<>> /\ now > row[1].expiry

\* C23: a token stops validating after logout or expiry.  No token logout was
\* called with has a session row; and an authenticated request (a logout, a
\* daily-orders read) made with a token that was logged out or whose expiry
\* has passed is answered 401 and leaves no session row of the token.
C23_TokenStopsValidating ==
  [][/\ \A t \in revoked' : SessionOf(sessions', t) = <<>>
     /\ \A w \in ReturnWorkers, t \in Tokens :
          ((api_logout(w, t) \/ api_get_daily_orders(w, t, "C1", SessionLive))
             /\ (t \in revoked \/ TokenExpired(t)))
          => /\ response'.code = 401
             /\ SessionOf(sessions', t) = <<>>]_vars

\* C23 witness: a request has just been refused with 401; one token was
\* logged out, another one was handed out, never logged out, and its row is
\* gone: it was deleted as expired at its lookup.
C23_Witness ==
  /\ response.code = 401
  /\ response.op = "get_daily_orders"
  /\ revoked # {}
  /\ \E t \in issued \ revoked : SessionOf(sessions, t) = <<>>

----------------------------------------------------------------------------
(* Properties of the request pipeline (checked under SpecGate) *)

\* The token is the token of a live session of an admin.
AdminSession(token) ==
  /\ token # NULL
  /\ LET row == SessionOf(sessions, token)
     IN row # <<>> /\ now <= row[1].expiry /\ users[row[1].username].role = "admin"

\* The user a token stands for: NULL without a live session.
UserOfToken(token) ==
  IF token = NULL THEN NULL
  ELSE LET row == SessionOf(sessions, token)
       IN IF row = <<>> \/ now > row[1].expiry THEN NULL ELSE row[1].username

\* The step left the workflow tables, the ledger tables, the open transaction
\* and every worker's position as they were.
NoStateChange ==
  UNCHANGED <<daily_orders, return_status, decisions, accepted_returned,
              processed_orders, txn, ltxn, pc>>

\* C22: while maintenance mode is on, every API call without an admin's
\* session is answered 423 and changes no state, a call with an admin's
\* session is served, and public_url answers everybody.
C22_MaintenanceLocksOut ==
  [][\A w \in ReturnWorkers :
       /\ \A t \in GateTokens :
            LET locked == (response'.code = 423 /\ NoStateChange)
            IN (MAINTENANCE_MODE /\ ~AdminSession(t))
               => /\ \A c \in GateLogins :
                       api_login(w, t, c[1], Passwords[c[1]], c[2]) => locked
                  /\ api_toggle_maintenance(w, t) => locked
                  /\ \A c \in GateCampaigns :
                       api_get_daily_orders(w, t, c, SessionLive) => locked
                  /\ \A r \in GateDailyRequests :
                       api_save_daily_decision(w, t, r.order, r.camp, r.decision, r.alt)
                       => locked
                  /\ \A k \in GateReturnKeys :
                       api_supplier_accept_return(w, t, k[1], k[2]) => locked
                  /\ \A items \in GateSaveItems :
                       api_save_decisions(w, t, items, FALSE) => locked
       /\ \A t \in GateTokens :
            (MAINTENANCE_MODE /\ AdminSession(t) /\ api_toggle_maintenance(w, t))
            => response'.code = 200 /\ ~MAINTENANCE_MODE'
       /\ api_public_url(w, NULL) => response'.code = 200]_vars

\* A request was refused with a validation or auth error (or by maintenance
\* mode) and nothing was written.
Rejected == response'.code \in {400, 401, 403, 423} /\ NoStateChange

\* C24: a workflow or save request with a missing or invalid token, with a
\* role the endpoint does not permit, with a missing required field or with
\* an empty decisions list is refused and leaves the ledger, audit, counter,
\* daily and return tables as they were.
C24_RejectionsChangeNothing ==
  [][\A w \in ReturnWorkers, t \in GateTokens :
       LET u == UserOfToken(t)
           noRole(roles) == u = NULL \/ users[u].role \notin roles
       IN /\ \A r \in GateDailyRequests :
               (/\ api_save_daily_decision(w, t, r.order, r.camp, r.decision, r.alt)
                /\ (noRole({"seller", "supplier"}) \/ r.decision = NULL))
               => Rejected
          /\ \A k \in GateReturnKeys :
               (/\ api_supplier_accept_return(w, t, k[1], k[2])
                /\ (noRole({"supplier"}) \/ k[1] = NULL))
               => Rejected
          /\ \A items \in GateSaveItems :
               (/\ api_save_decisions(w, t, items, FALSE)
                /\ (noRole({"seller", "supplier"}) \/ items = <<>>))
               => Rejected]_vars

\* C24 witness: a save with an empty decisions list has just been refused
\* with 400 while the daily table, the return table and the ledger all hold
\* rows.
C24_Witness ==
  /\ response.op = "save_decisions"
  /\ response.code = 400
  /\ daily_orders # <<>>
  /\ return_status # <<>>
  /\ decisions # <<>>
  /\ processed_orders # <<>>

\* C25: a save_daily_decision without a decision, or by a user whose role is
\* neither seller nor supplier, is refused and writes no daily row.
C25_DailyRejects ==
  [][\A w \in ReturnWorkers, t \in GateTokens, r \in GateDailyRequests :
       LET u == UserOfToken(t)
       IN (/\ api_save_daily_decision(w, t, r.order, r.camp, r.decision, r.alt)
           /\ \/ r.decision = NULL
              \/ (u # NULL /\ users[u].role \notin {"seller", "supplier"}))
          => /\ response'.op = "save_daily_decision"
             /\ response'.code \notin {0, 200}
             /\ daily_orders' = daily_orders
             /\ txn' = txn
             /\ pc'[w] = "idle"]_vars

\* C25 witness: a seller's save_daily_decision without a decision has just
\* been answered 400 "required" with maintenance mode off, while an admin has
\* a live session and the daily table holds a row.
C25_Witness ==
  /\ response.op = "save_daily_decision"
  /\ response.code = 400
  /\ ~MAINTENANCE_MODE
  /\ AdminSession("t3")
  /\ daily_orders # <<>>

----------------------------------------------------------------------------
(* Properties of re-accepting a return (checked under SpecAccept) *)

\* The attributes of a return status entry other than the accepting supplier
\* and the time of the acceptance.
EntryAttributesKept ==
  {"order_id", "campaign_id", "product_name", "sku", "quantity",
   "supplier_status", "seller_status", "seller_username",
   "supplier_delivered_at", "seller_accepted_at"}

\* C26: when supplier_accept_return commits on an entry whose supplier_status
\* was already "accepted", the entry keeps every attribute except
\* supplier_username, which becomes the caller, and supplier_accepted_at
\* (with the row's created_at), which becomes the time of the call; every
\* other entry is untouched.  A re-accept by the same supplier therefore
\* leaves the entry as the first accept left it, the timestamp aside.
C26_ReacceptRefreshesOnly ==
  [][\A w \in ReturnWorkers :
       LET old == FetchOne(return_status, req[w].order, req[w].camp)
           new == FetchOne(return_status', req[w].order, req[w].camp)
           others(t) == {t[i] : i \in {j \in 1..Len(t) :
                                         ~(t[j].order_id = req[w].order
                                           /\ t[j].campaign_id = req[w].camp)}}
       IN (/\ supplier_accept_return_commit(w)
           /\ old # <<>>
           /\ old[1].supplier_status = "accepted")
          => /\ new # <<>>
             /\ \A f \in EntryAttributesKept : new[1][f] = old[1][f]
             /\ new[1].supplier_username = req[w].user
             /\ new[1].supplier_accepted_at >= old[1].supplier_accepted_at
             /\ old[1].supplier_username = req[w].user
                  => new[1] = [old[1] EXCEPT
                                 !.supplier_accepted_at = new[1].supplier_accepted_at,
                                 !.created_at = new[1].created_at]
             /\ others(return_status') = others(return_status)]_vars

\* C26 witness: a re-accept by another supplier, at a later time, is about to
\* commit on an entry that is committed with supplier_status "accepted".
C26_Witness ==
  \E w \in ReturnWorkers :
    /\ pc[w] = "commit_accept"
    /\ LET old == FetchOne(return_status, req[w].order, req[w].camp)
           new == FetchOne(txn.ret, req[w].order, req[w].camp)
       IN /\ old # <<>>
          /\ old[1].supplier_status = "accepted"
          /\ old[1].supplier_username # req[w].user
          /\ new # <<>>
          /\ new[1].supplier_accepted_at > old[1].supplier_accepted_at

\* No two rows of the table carry the same (order_id, campaign_id).
OneRowPerKey(t) ==
  \A i, j \in 1..Len(t) :
    (t[i].order_id = t[j].order_id /\ t[i].campaign_id = t[j].campaign_id) => i = j

\* C27: return_status, committed or inside the open transaction, holds at
\* most one row per (order_id, campaign_id).
C27_OneEntryPerOrder ==
  /\ OneRowPerKey(return_status)
  /\ txn # NoTxn => OneRowPerKey(txn.ret)

\* C27 witness: supplier2's accept of a return that supplier1 accepted and
\* delivered has replaced the entry inside the open transaction, next to the
\* entry of another order.
C27_Witness ==
  \E w \in ReturnWorkers :
    /\ pc[w] = "commit_accept"
    /\ req[w].user = "supplier2"
    /\ <<req[w].order, req[w].camp>> \in delivered
    /\ LET old == FetchOne(return_status, req[w].order, req[w].camp)
       IN old # <<>> /\ old[1].supplier_username = "supplier1"
    /\ Len(return_status) = 2
    /\ Len(txn.ret) = 2

----------------------------------------------------------------------------
(* Properties of the manifests and of the rows of a save (checked under SpecSave) *)

\* files holds a manifest of the given kind.
HasManifest(files, kind) == \E i \in 1..Len(files) : files[i][1] = kind

\* C28: a final save whose renderer calls all succeeded returns a positive
\* manifest exactly when some item is decided "yes", a negative manifest
\* exactly when some item is decided "no", and a returned manifest exactly
\* when the caller is a supplier and some item is decided "no"; a temporary
\* save returns no manifest.
C28_ManifestsPerDecision ==
  [][\A w \in Workers :
       save_decisions_pdf(w)
       => LET items == call[w].items
              decided(dec) == \E i \in 1..Len(items) : items[i].decision = dec
              files == response'.pdf
              planned == Cardinality({dec \in {"yes", "no"} : decided(dec)})
                         + (IF decided("no") /\ users[call[w].user].role = "supplier"
                            THEN 1 ELSE 0)
          IN /\ call[w].temp_save => files = <<>>
             /\ Len(files) <= 3
             /\ (~call[w].temp_save /\ Len(files) >= planned)
                => /\ HasManifest(files, "temp/positive_report") <=> decided("yes")
                   /\ HasManifest(files, "temp/negative_report") <=> decided("no")
                   /\ HasManifest(files, "temp/returned_report")
                        <=> (decided("no") /\ users[call[w].user].role = "supplier")
                   /\ \A i \in 1..Len(files) : files[i][2] = call[w].user]_vars

\* C28 witness: a supplier's final save with a "no" item has answered with the
\* negative and the returned manifest.
C28_Witness ==
  /\ response.op = "save_decisions"
  /\ response.code = 200
  /\ response.pdf = << <<"temp/negative_report", "supplier1">>,
                       <<"temp/returned_report", "supplier1">> >>

\* C30 as stated: when a save with well-formed order and campaign ids ends,
\* by its commit or by the teardown after an exception, every line item has
\* its Decision Record with main_save = not temp_save and its
\* Accepted/Returned Record, "accepted" when the decision is "yes" and
\* "returned" for every other value, a missing decision included.
C30_EveryItemClassified ==
  [][\A w \in Workers :
       LET items == call[w].items
       IN (/\ save_decisions_commit(w) \/ teardown_request(w)
           /\ \A i \in 1..Len(items) :
                items[i].order_id # NULL /\ items[i].campaign_id # NULL)
          => /\ Len(decisions') = Len(decisions) + Len(items)
             /\ Len(accepted_returned') = Len(accepted_returned) + Len(items)
             /\ \A i \in 1..Len(items) :
                  /\ decisions'[Len(decisions) + i].main_save
                       = (IF call[w].temp_save THEN 0 ELSE 1)
                  /\ accepted_returned'[Len(accepted_returned) + i].status
                       = (IF items[i].decision = "yes" THEN "accepted" ELSE "returned")]_vars

\* C30 amended: the rows a save adds, by its commit or by the teardown after an
\* exception, belong to its first line items in order; each Decision Record
\* carries the item's decision, which is present, and main_save = not
\* temp_save; each Accepted/Returned Record is "accepted" when the decision is
\* "yes" and "returned" for every other present value; a line item without a
\* decision and the items after it get no row; a commit writes every item.
C30_WrittenItemsClassified ==
  [][\A w \in Workers :
       LET items == call[w].items
           nd == Len(decisions') - Len(decisions)
           na == Len(accepted_returned') - Len(accepted_returned)
       IN (save_decisions_commit(w) \/ teardown_request(w))
          => /\ 0 <= na /\ na <= nd /\ nd <= Len(items)
             /\ save_decisions_commit(w) => (na = Len(items) /\ nd = Len(items))
             /\ \A i \in 1..nd :
                  LET row == decisions'[Len(decisions) + i]
                  IN /\ items[i].decision # NULL
                     /\ row.decision = items[i].decision
                     /\ row.order_id = items[i].order_id
                     /\ row.main_save = (IF call[w].temp_save THEN 0 ELSE 1)
             /\ \A i \in 1..na :
                  LET row == accepted_returned'[Len(accepted_returned) + i]
                  IN /\ row.order_id = items[i].order_id
                     /\ row.status = (IF items[i].decision = "yes" THEN "accepted"
                                      ELSE "returned")
             /\ \A i \in 1..Len(items) : items[i].decision = NULL => nd < i]_vars

\* C30 witness: a temporary save has stored an "alternative" decision with
\* main_save 0 and a "returned" record for it, next to a "yes" decision with
\* an "accepted" record.
C30_Witness ==
  /\ response.op = "save_decisions"
  /\ response.code = 200
  /\ \E i \in 1..Len(decisions), j \in 1..Len(accepted_returned) :
       /\ decisions[i].decision = "alternative"
       /\ decisions[i].main_save = 0
       /\ accepted_returned[j].order_id = decisions[i].order_id
       /\ accepted_returned[j].supplier_username = decisions[i].username
       /\ accepted_returned[j].status = "returned"
  /\ \E j \in 1..Len(accepted_returned) : accepted_returned[j].status = "accepted"

----------------------------------------------------------------------------
(* Properties of the seller's returned-orders list (checked under SpecReturned) *)

\* The columns fetch_single_order's data may replace.
EnrichedColumns == {"product_name", "sku", "quantity"}

\* C29: a seller's returned-orders request for a campaign outside the
\* seller's assigned stores is refused with 403 and no list; for an assigned
\* campaign it answers 200 with one entry for every return_status row of that
\* campaign whose supplier_status is "delivered" and no other entry; an entry
\* differs from its row at most in the enriched columns, and is the row
\* itself when the enrichment returned nothing or raised.
C29_SellerReturnedList ==
  [][\A w \in ReturnWorkers, u \in ReturnedActors, c \in ReturnedCampaigns,
        enrich \in EnrichInputs :
       (/\ get_seller_returned_orders(w, u, c, enrich)
        /\ u # NULL
        /\ users[u].role = "seller"
        /\ c # NULL)
       => LET list == response'.orders
              due == {i \in 1..Len(return_status) :
                        /\ return_status[i].campaign_id = c
                        /\ return_status[i].supplier_status = "delivered"}
          IN IF c \notin users[u].assigned_stores
             THEN response'.code = 403 /\ list = NoOrders
             ELSE /\ response'.code = 200
                  /\ Len(list) = Cardinality(due)
                  /\ \A i \in due : \E j \in 1..Len(list) :
                       LET row == return_status[i]
                           e == list[j]
                       IN /\ e.order_id = row.order_id
                          /\ \A f \in DOMAIN row \ EnrichedColumns : e[f] = row[f]
                          /\ enrich[row.order_id] # "ok" => e = row
                  /\ \A j \in 1..Len(list) :
                       list[j].campaign_id = c /\ list[j].supplier_status = "delivered"]_vars

\* C29 witness: the list of campaign C1 has just been served with the one
\* delivered entry of C1, not enriched, while the table also holds an entry
\* of C1 that is accepted but not delivered and a delivered entry of C2.
C29_Witness ==
  /\ response.op = "get_seller_returned_orders"
  /\ response.code = 200
  /\ Len(response.orders) = 1
  /\ "price" \notin DOMAIN response.orders[1]
  /\ Len(return_status) = 3
  /\ \E i \in 1..3 : /\ return_status[i].campaign_id = "C1"
                     /\ return_status[i].supplier_status = "accepted"
  /\ \E i \in 1..3 : /\ return_status[i].campaign_id = "C2"
                     /\ return_status[i].supplier_status = "delivered"

----------------------------------------------------------------------------
(* Properties of the read paths (checked under SpecRead) *)

\* The user may read the campaign's lists: a session of a user with one of
\* the roles, and for a seller a campaign among the assigned stores.
MayRead(u, roles, camp) ==
  /\ u # NULL
  /\ users[u].role \in roles
  /\ users[u].role = "seller" => camp \in users[u].assigned_stores

\* The step left every table and the open transaction as they were.
StoreUnchanged ==
  UNCHANGED <<daily_orders, return_status, decisions, accepted_returned,
              processed_orders, txn, ltxn>>

\* C31: a get_daily_orders call that is allowed and whose fetch succeeds
\* answers with one entry per live order; the entry carries the
\* seller_decision, supplier_decision and status of a stored row of that
\* order and campaign when there is one, and NULL, NULL, "pending" when there
\* is none; the call leaves daily_orders as it was.
C31_DailyOverlayReported ==
  [][\A w \in ReturnWorkers, u \in ReadActors, c \in Campaigns, live \in LiveInputs :
       (get_daily_orders(w, u, c, live)
          /\ MayRead(u, {"seller", "supplier"}, c) /\ live.ok)
       => /\ response'.code = 200
          /\ DOMAIN response'.orders = live.orders
          /\ \A o \in live.orders :
               LET stored == {i \in 1..Len(daily_orders) :
                                /\ daily_orders[i].order_id = o
                                /\ daily_orders[i].campaign_id = c}
                   e == response'.orders[o]
               IN IF stored = {}
                  THEN /\ e.seller_decision = NULL
                       /\ e.supplier_decision = NULL
                       /\ e.status = "pending"
                  ELSE \E i \in stored :
                         /\ e.seller_decision = daily_orders[i].seller_decision
                         /\ e.supplier_decision = daily_orders[i].supplier_decision
                         /\ e.status = daily_orders[i].status
          /\ StoreUnchanged]_vars

\* C31 witness: the list of C1 has been served with order O1 carrying its
\* stored seller decision and order O2, which has no entry, as pending.
C31_Witness ==
  /\ response.op = "get_daily_orders"
  /\ response.code = 200
  /\ DOMAIN response.orders = {"O1", "O2"}
  /\ response.orders["O1"].seller_decision = "yes"
  /\ response.orders["O1"].status = "seller_accepted"
  /\ response.orders["O2"].status = "pending"
  /\ daily_orders # <<>>

\* C32: when the marketplace fetch of an allowed list call fails, the call
\* has made one fetch attempt, answers 500 without any order and leaves the
\* store as it was.
C32_FetchFailureAborts ==
  [][\A w \in ReturnWorkers, u \in ReadActors, c \in Campaigns, live \in LiveInputs :
       LET failed == /\ response'.code = 500
                     /\ response'.orders = NoOrders
                     /\ fetches' = 1
                     /\ StoreUnchanged
                     /\ pc' = pc
       IN ~live.ok
          => /\ (get_daily_orders(w, u, c, live) /\ MayRead(u, {"seller", "supplier"}, c))
                => failed
             /\ (get_orders(w, u, c, live) /\ MayRead(u, AllRoles, c)) => failed
             /\ (get_today_orders(w, u, c, live) /\ MayRead(u, AllRoles, c)) => failed
             /\ (get_canceled_orders(w, u, c, live)
                   /\ MayRead(u, {"supplier", "admin"}, c)) => failed]_vars

\* C32 witness: a daily-orders call has answered 500 after one fetch while
\* the daily table holds a row of the campaign's order.
C32_Witness ==
  /\ response.op = "get_daily_orders"
  /\ response.code = 500
  /\ fetches = 1
  /\ \E i \in 1..Len(daily_orders) : daily_orders[i].campaign_id = "C1"

\* C33: a seller's call of a read path for a campaign outside the assigned
\* stores is answered 403 with no order and without any call to the
\* marketplace.
C33_StoreCheckBeforeFetch ==
  [][\A w \in ReturnWorkers, u \in ReadActors, c \in Campaigns :
       LET refused == /\ response'.code = 403
                      /\ response'.orders = NoOrders
                      /\ fetches' = 0
                      /\ StoreUnchanged
       IN (u # NULL /\ users[u].role = "seller" /\ c \notin users[u].assigned_stores)
          => /\ \A live \in LiveInputs :
                  /\ get_daily_orders(w, u, c, live) => refused
                  /\ get_orders(w, u, c, live) => refused
                  /\ get_today_orders(w, u, c, live) => refused
                  /\ get_canceled_orders(w, u, c, live) => refused
             /\ get_seller_returned_orders(w, u, c, ReadEnrich) => refused]_vars

\* C33 witness: the seller's returned-orders call for C2 has been refused
\* without a fetch while return_status holds a delivered entry of C2 and the
\* ledger holds a supplier's decision.
C33_Witness ==
  /\ response.op = "get_seller_returned_orders"
  /\ response.code = 403
  /\ fetches = 0
  /\ \E i \in 1..Len(return_status) :
       /\ return_status[i].campaign_id = "C2"
       /\ return_status[i].supplier_status = "delivered"
  /\ decisions # <<>>

----------------------------------------------------------------------------
(* Properties of the return entries' states and owners (checked under SpecAccept) *)

\* Every row of t that the seller accepted is delivered, with its delivery time.
AcceptedOnlyWhenDelivered(t) ==
  \A i \in 1..Len(t) :
    t[i].seller_status = "accepted"
    => /\ t[i].supplier_status = "delivered"
       /\ t[i].supplier_delivered_at # NoTime

\* C34: in return_status, committed or inside the open transaction, a row
\* with seller_status "accepted" has supplier_status "delivered" and its
\* supplier_delivered_at set.
C34_SellerAcceptedImpliesDelivered ==
  /\ AcceptedOnlyWhenDelivered(return_status)
  /\ txn # NoTxn => AcceptedOnlyWhenDelivered(txn.ret)

\* C34 witness: one return has been delivered and accepted by the seller,
\* and another one that had been delivered is back at "accepted" after a new
\* supplier accept, with the seller's part reset.
C34_Witness ==
  /\ \E i \in 1..Len(return_status) :
       /\ return_status[i].seller_status = "accepted"
       /\ return_status[i].supplier_status = "delivered"
  /\ \E i \in 1..Len(return_status) :
       /\ <<return_status[i].order_id, return_status[i].campaign_id>> \in delivered
       /\ return_status[i].supplier_status = "accepted"
       /\ return_status[i].seller_status = "pending"

\* C35: a supplier accept that commits makes the caller the entry's
\* supplier, whoever had accepted it before; a supplier_deliver_return on an
\* existing entry goes through for the entry's current supplier and is
\* answered 400, changing nothing, for every other supplier.
C35_LastAccepterDelivers ==
  [][\A w \in ReturnWorkers :
       /\ supplier_accept_return_commit(w)
          => LET e == FetchOne(return_status', req[w].order, req[w].camp)
             IN e # <<>> /\ e[1].supplier_username = req[w].user
       /\ \A u \in AcceptSuppliers, k \in ReturnKeys :
            LET e == FetchOne(return_status, k[1], k[2])
            IN (supplier_deliver_return(w, u, k[1], k[2]) /\ e # <<>>)
               => IF e[1].supplier_username = u
                  THEN /\ pc'[w] = "render_deliver"
                       /\ LET d == FetchOne(txn'.ret, k[1], k[2])
                          IN d # <<>> /\ d[1].supplier_status = "delivered"
                                      /\ d[1].supplier_username = u
                  ELSE /\ response'.code = 400
                       /\ UNCHANGED <<return_status, txn, pc>>]_vars

\* C35 witness: supplier1, who had accepted and delivered the return, has
\* just been refused a delivery on the entry that supplier2 accepted since.
C35_Witness ==
  /\ response.op = "supplier_deliver_return"
  /\ response.code = 400
  /\ \E i \in 1..Len(return_status) :
       /\ return_status[i].supplier_username = "supplier2"
       /\ return_status[i].supplier_status = "accepted"
       /\ <<return_status[i].order_id, return_status[i].campaign_id>> \in delivered
  /\ \A i \in 1..Len(return_status) : return_status[i].supplier_username = "supplier2"

----------------------------------------------------------------------------
(* Properties of the stored daily rows (checked under SpecRows) *)

\* The row carries the decision of exactly one role.
OneRoleRow(row) ==
  \/ /\ row.status = "seller_accepted"
     /\ row.seller_decision # NULL
     /\ row.seller_username # NULL
     /\ row.supplier_decision = NULL
     /\ row.supplier_username = NULL
     /\ row.alternative_product = NULL
  \/ /\ row.status = "supplier_accepted"
     /\ row.supplier_decision # NULL
     /\ row.supplier_username # NULL
     /\ row.seller_decision = NULL
     /\ row.seller_username = NULL

\* C36: every row of daily_orders, committed or inside the open transaction,
\* is a seller's row (status seller_accepted, seller_decision set, no
\* supplier_decision, supplier_username or alternative_product) or a
\* supplier's row (status supplier_accepted, supplier_decision set, no
\* seller_decision or seller_username); none has status pending or completed.
C36_DailyRowOneRole ==
  /\ \A i \in 1..Len(daily_orders) : OneRoleRow(daily_orders[i])
  /\ txn # NoTxn => \A i \in 1..Len(txn.daily) : OneRoleRow(txn.daily[i])

\* C36 witness: the seller's row and the supplier's row of one order are both
\* stored, the supplier's with an alternative product.
C36_Witness ==
  \E i, j \in 1..Len(daily_orders) :
    /\ daily_orders[i].order_id = daily_orders[j].order_id
    /\ daily_orders[i].campaign_id = daily_orders[j].campaign_id
    /\ daily_orders[i].status = "seller_accepted"
    /\ daily_orders[j].status = "supplier_accepted"
    /\ daily_orders[j].supplier_decision = "alternative"
    /\ daily_orders[j].alternative_product # ""

----------------------------------------------------------------------------
(* Properties of the lock (checked under SpecAdmin) and of the user table
   (checked under SpecUsers) *)

\* No token is the token of a live session of an admin.
NoAdminSession == \A t \in Tokens : ~AdminSession(t)

\* C37: once maintenance mode is on and no unexpired session of an admin is
\* left, every step leaves maintenance mode on and creates no session of an
\* admin; a login in that state is answered 423.
C37_LockedForGood ==
  [][(MAINTENANCE_MODE /\ NoAdminSession)
     => /\ MAINTENANCE_MODE'
        /\ NoAdminSession'
        /\ \A w \in ReturnWorkers, c \in AdminLogins :
             api_login(w, NULL, c[1], Passwords[c[1]], c[2]) => response'.code = 423]_vars

\* C37 witness: maintenance mode is on, no admin session is left, and the
\* last request, a login, was answered 423.
C37_Witness ==
  /\ MAINTENANCE_MODE
  /\ NoAdminSession
  /\ response.op = "login"
  /\ response.code = 423

\* What the gates in front of a route answer to user u, decided on u's record
\* as it is now: 423 from check_maintenance, 403 from the role check of
\* require_auth or the seller's store check, 200 otherwise.
GateCodeNow(u, roles, camp, path) ==
  IF MAINTENANCE_MODE /\ MaintenanceCovers(path) /\ users[u].role # "admin" THEN 423
  ELSE IF users[u].role \notin roles THEN 403
  ELSE IF users[u].role = "seller" /\ camp \notin users[u].assigned_stores THEN 403
  ELSE 200

\* C38: a request with the token of a live session is gated by the role and
\* the assigned stores the user's record holds when the request is made,
\* whatever the record held when the session was issued.
C38_GatedOnCurrentRecord ==
  [][\A w \in ReturnWorkers, t \in UsersTokens :
       UserOfToken(t) # NULL
       => /\ \A c \in AdminCampaigns :
               api_get_daily_orders(w, t, c, SessionLive)
               => response'.code = GateCodeNow(UserOfToken(t), {"seller", "supplier"}, c,
                                               <<"api", "daily_orders", c>>)
          /\ api_toggle_maintenance(w, t)
             => response'.code = GateCodeNow(UserOfToken(t), {"admin"}, "C1",
                                             <<"api", "admin", "toggle_maintenance">>)]_vars

\* C38 witness: only two logins ever happened, the seller's before the
\* admin's, so the seller's session is older than every change of the user
\* table; the admin has moved the seller to store C2, and the last request,
\* the seller's with that session, read the daily orders of C2.
C38_Witness ==
  \E ts, ta \in Tokens :
    /\ ts # ta
    /\ issued = {ts, ta}
    /\ SessionOf(sessions, ts) # <<>>
    /\ SessionOf(sessions, ta) # <<>>
    /\ SessionOf(sessions, ts)[1].username = "seller1"
    /\ SessionOf(sessions, ta)[1].username = "admin"
    /\ SessionOf(sessions, ts)[1].expiry < SessionOf(sessions, ta)[1].expiry
    /\ now <= SessionOf(sessions, ts)[1].expiry
    /\ users["seller1"].role = "seller"
    /\ users["seller1"].assigned_stores = {"C2"}
    /\ users["admin"].role = "admin"
    /\ response.op = "get_daily_orders"
    /\ response.code = 200

----------------------------------------------------------------------------
(* Properties of the supplier's order queue (checked under SpecQueue) *)

\* C39: every step keeps each row of the supplier's queue in the queue, with
\* its id and its values, and what supplier_get_orders answers a supplier is
\* the queue of the committed table.
C39_QueueOnlyGrows ==
  [][/\ \A i \in SupplierQueue(decisions) :
          /\ i \in SupplierQueue(decisions')
          /\ QueueEntry(decisions', i) = QueueEntry(decisions, i)
     /\ \A w \in ReturnWorkers :
          (supplier_get_orders(w, "supplier1") /\ txn = NoTxn)
          => /\ response'.code = 200
             /\ response'.orders = QueueEntries(decisions, 1)
             /\ Len(response'.orders) = Cardinality(SupplierQueue(decisions))]_vars

\* C39 witness: the seller's temporary yes for an order is in the queue, the
\* seller's final save and a supplier's decision for the same order came
\* after it, the order has a Return Status Entry, and the supplier has just
\* been answered with the queue.
C39_Witness ==
  /\ 1 \in SupplierQueue(decisions)
  /\ \E j, k \in 2..Len(decisions) :
       /\ decisions[j].order_id = decisions[1].order_id
       /\ decisions[j].role = "seller"
       /\ decisions[j].main_save = 1
       /\ decisions[k].order_id = decisions[1].order_id
       /\ decisions[k].role = "supplier"
  /\ \E i \in 1..Len(return_status) : return_status[i].order_id = decisions[1].order_id
  /\ response.op = "supplier_get_orders"
  /\ response.orders = <<QueueEntry(decisions, 1)>>

----------------------------------------------------------------------------
(* Properties of the product columns of return_status (checked under
   SpecAccept) *)

\* The row names no product.
NoProduct(row) == row.product_name = NULL /\ row.sku = NULL /\ row.quantity = NULL

\* The worker is inside the try block of supplier_deliver_return or
\* seller_accept_return.
Rendering(w) == pc[w] \in {"render_deliver", "render_seller"}

\* C40: product_name, sku and quantity are NULL in every row of return_status,
\* committed or inside the open transaction, and in the row the renderer's
\* single line item is built from.
C40_ReturnRowsNameNoProduct ==
  /\ \A i \in 1..Len(return_status) : NoProduct(return_status[i])
  /\ \A w \in ReturnWorkers :
       /\ \A i \in 1..Len(ViewReturn(w)) : NoProduct(ViewReturn(w)[i])
       /\ Rendering(w)
          => LET row == FetchOne(ViewReturn(w), req[w].order, req[w].camp)
             IN row # <<>> /\ NoProduct(row[1])

\* C40 witness: seller_accept_return is about to render the manifest of an
\* entry that a supplier accepted and delivered, while another entry is
\* stored.
C40_Witness ==
  \E w \in ReturnWorkers :
    /\ pc[w] = "render_seller"
    /\ LET row == FetchOne(ViewReturn(w), req[w].order, req[w].camp)
       IN /\ row # <<>>
          /\ row[1].supplier_status = "delivered"
          /\ row[1].seller_status = "accepted"
    /\ Len(return_status) = 2

====
